---- MODULE Spec2Model ----
(***************************************************************************)
(* Route discovery of express-route-visualizer: extractRoutes walks the    *)
(* Express router stack, decodes mount regexps, combines paths, resolves   *)
(* protection and filters the records.                                     *)
(*                                                                         *)
(* A JavaScript string is a sequence of one-character strings, so that     *)
(* startsWith, replace, split and toUpperCase are computed, not assumed.   *)
(* An optional value (undefined / null against a present value) is a       *)
(* sequence of length 0 or 1.                                              *)
(***************************************************************************)
EXTENDS Integers, Sequences, FiniteSets, TLC

VARIABLES app, config, pc, frames, routes, filtered, visits, calls, warnings, util

vars == <<app, config, pc, frames, routes, filtered, visits, calls, warnings, util>>

\* ------------------------------------------------------------------------
\* Bounds of the input space.
\* ------------------------------------------------------------------------
MaxFragLen == 3
MaxDepth == 3
MaxWidth == 2
MaxTextLen == 3

\* ------------------------------------------------------------------------
\* Optional values and strings.
\* ------------------------------------------------------------------------
None == <<>>
Some(v) == <<v>>
IsSome(o) == Len(o) > 0
Get(o) == o[1]

SL == "/"
BS == "\\"

LowerLetters == <<"a","b","c","d","e","f","g","h","i","j","k","l","m","n","o","p","q","r","s","t","u","v","w","x","y","z">>
UpperLetters == <<"A","B","C","D","E","F","G","H","I","J","K","L","M","N","O","P","Q","R","S","T","U","V","W","X","Y","Z">>

\* String.prototype.toUpperCase / toLowerCase, one character at a time.
UpperChar(c) == IF \E i \in 1..26 : LowerLetters[i] = c THEN UpperLetters[CHOOSE i \in 1..26 : LowerLetters[i] = c] ELSE c
LowerChar(c) == IF \E i \in 1..26 : UpperLetters[i] = c THEN LowerLetters[CHOOSE i \in 1..26 : UpperLetters[i] = c] ELSE c
toUpperCase(s) == [i \in 1..Len(s) |-> UpperChar(s[i])]
toLowerCase(s) == [i \in 1..Len(s) |-> LowerChar(s[i])]

\* s.substring(n): the characters after the first n.
Drop(s, n) == IF n >= Len(s) THEN <<>> ELSE SubSeq(s, n + 1, Len(s))
\* s.substring(0, n)
Take(s, n) == IF n >= Len(s) THEN s ELSE SubSeq(s, 1, n)

\* pat occurs in s at index i (1-based).
MatchAt(s, pat, i) == i >= 1 /\ i + Len(pat) - 1 <= Len(s) /\ \A k \in 1..Len(pat) : s[i + k - 1] = pat[k]
startsWith(s, pat) == MatchAt(s, pat, 1)
endsWith(s, pat) == MatchAt(s, pat, Len(s) - Len(pat) + 1)
includes(s, pat) == \E i \in 1..(Len(s) + 1) : MatchAt(s, pat, i)
\* Index of the leftmost occurrence of pat in s at or after from; 0 when none.
IndexOf(s, pat, from) == IF \E i \in from..(Len(s) + 1) : MatchAt(s, pat, i) THEN CHOOSE i \in from..(Len(s) + 1) : MatchAt(s, pat, i) /\ \A j \in from..(i - 1) : ~MatchAt(s, pat, j) ELSE 0

\* s.replace(/pat/g, rep) for a literal, non-empty pat: leftmost matches, not overlapping.
RECURSIVE ReplaceAll(_, _, _)
ReplaceAll(s, pat, rep) == IF s = <<>> THEN <<>> ELSE IF MatchAt(s, pat, 1) THEN rep \o ReplaceAll(Drop(s, Len(pat)), pat, rep) ELSE <<s[1]>> \o ReplaceAll(Drop(s, 1), pat, rep)

\* s.replace(/\/+/g, "/") (with min = 1) and s.replace(/\/{2,}/g, "/") (min = 2):
\* every maximal run of at least min slashes becomes one slash.  Both leave
\* no two consecutive slashes; they are computed run by run as the regexp does.
RECURSIVE SlashRunLen(_)
SlashRunLen(s) == IF s # <<>> /\ s[1] = SL THEN 1 + SlashRunLen(Drop(s, 1)) ELSE 0
RECURSIVE CollapseSlashes(_, _)
CollapseSlashes(s, min) == IF s = <<>> THEN <<>> ELSE IF SlashRunLen(s) >= min THEN <<SL>> \o CollapseSlashes(Drop(s, SlashRunLen(s)), min) ELSE <<s[1]>> \o CollapseSlashes(Drop(s, 1), min)

\* s.replace(/[\^$?*+[\]\\{}|]/g, "")
RegexSpecialChars == {"^", "$", "?", "*", "+", "[", "]", BS, "{", "}", "|"}
StripSpecialChars(s) == SelectSeq(s, LAMBDA c : c \notin RegexSpecialChars)

\* ------------------------------------------------------------------------
\* Pattern decoder (extract-routes.utils.ts).  A compiled matcher is the text
\* regexp.toString() yields.
\* ------------------------------------------------------------------------
Str(t) == [kind |-> "string", text |-> t]
ReText(t) == [kind |-> "regexp", text |-> t]
ObjText(t) == [kind |-> "object", text |-> t]
Nullish == [kind |-> "nullish", text |-> <<>>]

\* JavaScript truthiness of a string: the empty string is falsy.
TruthyStr(t) == t # <<>>

\* Mutant: the escaped slashes of the capture are kept as they are.
extractFastPathRoute_KeepEscapes(regexString) ==
    LET i == IndexOf(regexString, <<"^", BS, SL>>, 1)
        rest == Drop(regexString, i + 2)
        q == IndexOf(rest, <<"?">>, 1)
        cap == IF q = 0 THEN rest ELSE Take(rest, q - 1)
    IN IF i = 0 THEN None ELSE Some(<<SL>> \o cap)

\* regexString.match(/\^\\\/([^?]*)/): the leftmost "^\/", then every
\* character up to the first "?"; "\/" in the capture becomes "/".
extractFastPathRoute(regexString) ==
    LET i == IndexOf(regexString, <<"^", BS, SL>>, 1)
        rest == Drop(regexString, i + 2)
        q == IndexOf(rest, <<"?">>, 1)
        cap == IF q = 0 THEN rest ELSE Take(rest, q - 1)
    IN IF i = 0 THEN None ELSE Some(<<SL>> \o ReplaceAll(cap, <<BS, SL>>, <<SL>>))

\* .replace(/\\\/\?(?:\/|$).*$/, ""): from the leftmost "\/?" that is followed
\* by "/" or by the end of the text, drop everything to the end.
EndPatternAt(s, i) == MatchAt(s, <<BS, SL, "?">>, i) /\ (i + 3 > Len(s) \/ s[i + 3] = SL)
RemoveEndPattern(s) == IF \E i \in 1..Len(s) : EndPatternAt(s, i) THEN Take(s, (CHOOSE i \in 1..Len(s) : EndPatternAt(s, i) /\ \A j \in 1..(i - 1) : ~EndPatternAt(s, j)) - 1) ELSE s
RemovePrefix(s, pat) == IF startsWith(s, pat) THEN Drop(s, Len(pat)) ELSE s
RemoveSuffix(s, pat) == IF endsWith(s, pat) THEN Take(s, Len(s) - Len(pat)) ELSE s

\* .replace(/\(\?:\([^)]+\)\)/g, ""): "(?:(", one or more characters other
\* than ")", then "))".
NonCapLen(s) ==
    LET rest == Drop(s, 4)
        j == IndexOf(rest, <<")">>, 1)
    IN IF MatchAt(s, <<"(", "?", ":", "(">>, 1) /\ j >= 2 /\ j + 1 <= Len(rest) /\ rest[j + 1] = ")" THEN 4 + j + 1 ELSE 0
RECURSIVE RemoveNonCapturing(_)
RemoveNonCapturing(s) == IF s = <<>> THEN <<>> ELSE IF NonCapLen(s) > 0 THEN RemoveNonCapturing(Drop(s, NonCapLen(s))) ELSE <<s[1]>> \o RemoveNonCapturing(Drop(s, 1))

\* .replace(/\([^)]*\)/g, rep) (min = 0) and .replace(/\([^)]+\)/g, rep)
\* (min = 1): "(", at least min characters other than ")", then ")".
GroupLen(s, min) ==
    LET rest == Drop(s, 1)
        j == IndexOf(rest, <<")">>, 1)
    IN IF s # <<>> /\ s[1] = "(" /\ j >= 1 + min THEN 1 + j ELSE 0
RECURSIVE ReplaceGroups(_, _, _)
ReplaceGroups(s, min, rep) == IF s = <<>> THEN <<>> ELSE IF GroupLen(s, min) > 0 THEN rep \o ReplaceGroups(Drop(s, GroupLen(s, min)), min, rep) ELSE <<s[1]>> \o ReplaceGroups(Drop(s, 1), min, rep)

RootLookahead == <<BS, SL, "?", "(", "?", "=", BS, SL, "|", "$", ")">>

extractStandardRoute(regexString) ==
    LET p1 == RemovePrefix(regexString, <<SL, "^">>)
        p2 == RemoveEndPattern(p1)
        p3 == RemoveSuffix(p2, <<SL, "i">>)
        p4 == RemoveSuffix(p3, <<"$", SL>>)
        p5 == ReplaceAll(p4, <<BS, SL>>, <<SL>>)
        p6 == RemoveNonCapturing(p5)
        p7 == ReplaceGroups(p6, 0, <<>>)
        path == CollapseSlashes(p7, 2)
        stripped == StripSpecialChars(path)
    IN IF includes(regexString, <<"^", BS, SL>>) \/ includes(regexString, <<BS, SL, "?">>)
       THEN IF includes(regexString, RootLookahead) THEN Some(<<SL>>)
            ELSE IF path = <<BS, SL>> \/ path = <<>> \/ path = <<"(", "?", ":", ")">> THEN Some(<<SL>>)
            ELSE IF startsWith(stripped, <<SL>>) THEN Some(stripped) ELSE Some(<<SL>> \o stripped)
       ELSE None

\* Mutant: the fallback gives the empty string.
extractFallbackRoute_Empty(regexString) == <<>>
extractFallbackRoute(regexString) == <<SL>>

\* regexp is None for a missing (null / undefined) matcher.
extractBaseRoute(regexp) ==
    LET regexString == Get(regexp)
        fast == extractFastPathRoute(regexString)
        std == extractStandardRoute(regexString)
    IN IF ~IsSome(regexp) THEN <<SL>>
       ELSE IF IsSome(fast) /\ TruthyStr(Get(fast)) THEN Get(fast)
       ELSE IF IsSome(std) /\ TruthyStr(Get(std)) THEN Get(std)
       ELSE extractFallbackRoute(regexString)

\* ------------------------------------------------------------------------
\* Path combiner.
\* ------------------------------------------------------------------------
\* regexString.replace(/^\/|\/[gimy]*$/g, ""): a leading "/" and the closing
\* "/" with its flags.
FlagChars == {"g", "i", "m", "y"}
ClosingAt(s, i) == i >= 1 /\ i <= Len(s) /\ s[i] = SL /\ \A k \in (i + 1)..Len(s) : s[k] \in FlagChars
StripDelimiters(s) ==
    LET t == IF startsWith(s, <<SL>>) THEN Drop(s, 1) ELSE s
    IN IF \E i \in 1..Len(t) : ClosingAt(t, i) THEN Take(t, (CHOOSE i \in 1..Len(t) : ClosingAt(t, i) /\ \A j \in 1..(i - 1) : ~ClosingAt(t, j)) - 1) ELSE t

ParamToken == <<":", "p", "a", "r", "a", "m">>

normalizeRoutePath(routePath) ==
    IF routePath.kind = "regexp"
    THEN <<SL>> \o ReplaceGroups(ReplaceAll(StripDelimiters(routePath.text), <<BS, SL>>, <<SL>>), 1, ParamToken)
    ELSE IF routePath.kind # "string"
    THEN LET pathStr == IF routePath.kind = "object" /\ TruthyStr(routePath.text) THEN routePath.text ELSE <<SL>>
         IN IF startsWith(pathStr, <<SL>>) THEN pathStr ELSE <<SL>> \o pathStr
    ELSE routePath.text

\* Mutant: the trailing "/" is left on the combined path.
combinePaths_KeepTrailing(basePath, routePath) ==
    LET normalizedRoutePath == normalizeRoutePath(routePath)
        base == IF basePath = <<SL>> THEN <<>> ELSE IF endsWith(basePath, <<SL>>) THEN basePath ELSE basePath \o <<SL>>
        route == IF TruthyStr(base) /\ startsWith(normalizedRoutePath, <<SL>>) THEN Drop(normalizedRoutePath, 1) ELSE normalizedRoutePath
        combined == CollapseSlashes(base \o route, 1)
    IN IF basePath = <<SL>> /\ routePath = Str(<<SL>>) THEN <<SL>>
       ELSE IF ~TruthyStr(combined) THEN <<SL>> ELSE combined

combinePaths(basePath, routePath) ==
    LET normalizedRoutePath == normalizeRoutePath(routePath)
        base == IF basePath = <<SL>> THEN <<>> ELSE IF endsWith(basePath, <<SL>>) THEN basePath ELSE basePath \o <<SL>>
        route == IF TruthyStr(base) /\ startsWith(normalizedRoutePath, <<SL>>) THEN Drop(normalizedRoutePath, 1) ELSE normalizedRoutePath
        combined == CollapseSlashes(base \o route, 1)
        trimmed == IF Len(combined) > 1 /\ endsWith(combined, <<SL>>) THEN Take(combined, Len(combined) - 1) ELSE combined
    IN IF basePath = <<SL>> /\ routePath = Str(<<SL>>) THEN <<SL>>
       ELSE IF ~TruthyStr(trimmed) THEN <<SL>> ELSE trimmed

\* ------------------------------------------------------------------------
\* Node classifier and middleware extraction (extract-routes.utils.ts).
\* A layer is [route, name, handle, regexp]; handle is None or
\* [isFunction, stack, stackIsArray]; route is None or [path, methods,
\* stack] with methods None or the method map as a list of [name, on].
\* ------------------------------------------------------------------------
\* A value that is not an object (null, undefined, a number, a string, a
\* boolean) is [primitive, truthy]; reading a property of a truthy one gives
\* undefined, and `layer && ...` stops at a falsy one.
Primitive(type, truthy) == [primitive |-> type, truthy |-> truthy]
IsPrimitive(v) == "primitive" \in DOMAIN v
Truthy(v) == IF IsPrimitive(v) THEN v.truthy ELSE TRUE
isRouteLayer(layer) == Truthy(layer) /\ ~IsPrimitive(layer) /\ IsSome(layer.route)
isNestedRouter(layer) == Truthy(layer) /\ ~IsPrimitive(layer) /\ layer.name = "router" /\ IsSome(layer.handle) /\ IsSome(Get(layer.handle).stack)
\* Mutant: the typeof test on the handle is lost.
isSpecialMiddleware_AnyHandle(layer) == Truthy(layer) /\ ~IsPrimitive(layer) /\ IsSome(layer.handle) /\ IsSome(layer.regexp)
isSpecialMiddleware(layer) == Truthy(layer) /\ ~IsPrimitive(layer) /\ IsSome(layer.handle) /\ Get(layer.handle).isFunction /\ IsSome(layer.regexp)

\* (route.stack || []).map((s) => s.handle || s)
extractMiddlewares(route) ==
    LET stack == IF IsSome(route.stack) THEN Get(route.stack) ELSE <<>>
    IN [i \in 1..Len(stack) |-> IF IsSome(stack[i].handle) THEN Get(stack[i].handle) ELSE stack[i]]

\* ------------------------------------------------------------------------
\* Caller-supplied predicates (isProtected, includeFilter, excludeFilter),
\* named by an identifier; each is a pure function of the route it is given.
\* ------------------------------------------------------------------------
HasMiddlewareNamed(route, n) == \E i \in 1..Len(route.middlewares) : route.middlewares[i].name = n
ApplyPredicate(fn, route) ==
    CASE fn = "always" -> TRUE
      [] fn = "never" -> FALSE
      [] fn = "isGet" -> route.method = <<"G", "E", "T">>
      [] fn = "underA" -> startsWith(route.path, <<SL, "a">>)
      [] fn = "noAdmin" -> ~HasMiddlewareNamed(route, "requireAdmin")
      [] fn = "isProtected" -> route.protected
      [] OTHER -> FALSE

\* ------------------------------------------------------------------------
\* Protection resolver.  protectionMiddlewareName is None or
\* [isArray, items]: a string is [isArray |-> FALSE, items |-> <<name>>].
\* ------------------------------------------------------------------------
NameStr(n) == [isArray |-> FALSE, items |-> <<n>>]
NameList(ns) == [isArray |-> TRUE, items |-> ns]
\* Truthiness of a string-or-array option: "" is falsy, every array is truthy.
TruthyOption(o) == IsSome(o) /\ (Get(o).isArray \/ Get(o).items[1] # "")
\* middleware?.name === protectionMiddlewareName: strict equality of a
\* string with the option's value; a string never equals an array.
NameStrictEquals(name, value) == ~value.isArray /\ value.items[1] = name

\* Mutant: the predicate is handed the method as the method map spells it.
ProtectionArg_RawMethod(path, method, middlewares) == [path |-> path, method |-> method, middlewares |-> middlewares]
\* isProtectedFn({ path, method: method.toUpperCase(), middlewares })
ProtectionArg(path, method, middlewares) == [path |-> path, method |-> toUpperCase(method), middlewares |-> middlewares]

\* Mutant: the middleware names are consulted before the custom predicate.
determineRouteProtection_NamesFirst(path, method, middlewares, isProtectedFn, protectionMiddlewareName) ==
    IF TruthyOption(protectionMiddlewareName)
    THEN \E i \in 1..Len(middlewares) : NameStrictEquals(middlewares[i].name, Get(protectionMiddlewareName))
    ELSE IF IsSome(isProtectedFn)
    THEN ApplyPredicate(Get(isProtectedFn), ProtectionArg(path, method, middlewares))
    ELSE FALSE

\* Mutant: without options, a middleware named ensureAuthenticated protects.
determineRouteProtection_Heuristic(path, method, middlewares, isProtectedFn, protectionMiddlewareName) ==
    IF IsSome(isProtectedFn)
    THEN ApplyPredicate(Get(isProtectedFn), ProtectionArg(path, method, middlewares))
    ELSE IF TruthyOption(protectionMiddlewareName)
    THEN \E i \in 1..Len(middlewares) : NameStrictEquals(middlewares[i].name, Get(protectionMiddlewareName))
    ELSE \E i \in 1..Len(middlewares) : middlewares[i].name = "ensureAuthenticated"

determineRouteProtection(path, method, middlewares, isProtectedFn, protectionMiddlewareName) ==
    IF IsSome(isProtectedFn)
    THEN ApplyPredicate(Get(isProtectedFn), ProtectionArg(path, method, middlewares))
    ELSE IF TruthyOption(protectionMiddlewareName)
    THEN \E i \in 1..Len(middlewares) : NameStrictEquals(middlewares[i].name, Get(protectionMiddlewareName))
    ELSE FALSE

\* ------------------------------------------------------------------------
\* Tree walker (extract-routes.ts).
\* ------------------------------------------------------------------------
\* Mutant: the truthiness filter on the method map is lost.
DeclaredMethods_Unfiltered(route) == Get(route.methods)
\* Object.keys(route.methods).filter((method) => route.methods[method])
DeclaredMethods(route) == SelectSeq(Get(route.methods), LAMBDA m : m.on)

extractRoutesFromRouteLayer(layer, basePath, isProtectedFn, protectionMiddlewareName) ==
    IF ~IsSome(layer.route) THEN <<>>
    ELSE LET route == Get(layer.route)
             fullPath == combinePaths(basePath, route.path)
             methods == DeclaredMethods(route)
             middlewares == extractMiddlewares(route)
         IN [i \in 1..Len(methods) |->
               [method |-> toUpperCase(methods[i].name),
                path |-> fullPath,
                protected |-> determineRouteProtection(fullPath, methods[i].name, middlewares, isProtectedFn, protectionMiddlewareName),
                middlewares |-> middlewares]]

\* Mutant: the predicate is consulted for the first declared method only.
ProtectionCalls_FirstOnly(layer, basePath, isProtectedFn) ==
    IF IsSome(isProtectedFn) /\ IsSome(layer.route)
    THEN LET route == Get(layer.route)
             fullPath == combinePaths(basePath, route.path)
             methods == DeclaredMethods(route)
             middlewares == extractMiddlewares(route)
         IN [i \in 1..(IF methods = <<>> THEN 0 ELSE 1) |-> [fn |-> "isProtected", arg |-> ProtectionArg(fullPath, methods[i].name, middlewares)]]
    ELSE <<>>

\* The calls of isProtectedFn while one route layer is extracted, in call
\* order: determineRouteProtection makes one inside methods.map for every
\* declared method, and none without a predicate.
ProtectionCalls(layer, basePath, isProtectedFn) ==
    IF IsSome(isProtectedFn) /\ IsSome(layer.route)
    THEN LET route == Get(layer.route)
             fullPath == combinePaths(basePath, route.path)
             methods == DeclaredMethods(route)
             middlewares == extractMiddlewares(route)
         IN [i \in 1..Len(methods) |-> [fn |-> "isProtected", arg |-> ProtectionArg(fullPath, methods[i].name, middlewares)]]
    ELSE <<>>

\* const stack = router.stack || []
StackOf(router) == IF IsSome(router.stack) THEN Get(router.stack) ELSE <<>>
\* stack.flatMap(...) is callable: the stack is absent (then []) or an array.
HasFlatMap(router) == ~IsSome(router.stack) \/ router.stackIsArray
\* Object.keys(route.methods) is defined: route.methods is not undefined / null.
HasMethodMap(layer) == IsSome(Get(layer.route).methods)

\* extractRoutesFromNestedRouter: subRoutePath is "/" unless layer.regexp is
\* set; the inner router is walked under combinePaths(baseRoute, subRoutePath).
NestedRouterBase(layer, baseRoute) ==
    LET subRoutePath == IF IsSome(layer.regexp) THEN extractBaseRoute(layer.regexp) ELSE <<SL>>
    IN combinePaths(baseRoute, Str(subRoutePath))

\* Mutant: the inner list of a special middleware is walked under the
\* unchanged base, the mount being ignored.
SpecialMiddlewareBase_Unmounted(layer, baseRoute) == baseRoute
\* extractRoutesFromSpecialMiddleware: the base of the recursive call.
SpecialMiddlewareBase(layer, baseRoute) == combinePaths(baseRoute, Str(extractBaseRoute(layer.regexp)))

\* The value extractRoutesFromRouter returns for a node list that is an
\* array, when no layer of the tree makes it raise: the flatMap of what each
\* layer's branch returns.
RECURSIVE extractRoutesFromRouter(_, _, _, _)
LayerResult(layer, baseRoute, isProtectedFn, protectionMiddlewareName) ==
    IF isRouteLayer(layer) THEN extractRoutesFromRouteLayer(layer, baseRoute, isProtectedFn, protectionMiddlewareName)
    ELSE IF isNestedRouter(layer) THEN extractRoutesFromRouter(StackOf(Get(layer.handle)), NestedRouterBase(layer, baseRoute), isProtectedFn, protectionMiddlewareName)
    ELSE IF isSpecialMiddleware(layer) /\ IsSome(Get(layer.handle).stack) THEN extractRoutesFromRouter(StackOf(Get(layer.handle)), SpecialMiddlewareBase(layer, baseRoute), isProtectedFn, protectionMiddlewareName)
    ELSE <<>>
extractRoutesFromRouter(stack, baseRoute, isProtectedFn, protectionMiddlewareName) ==
    IF stack = <<>> THEN <<>>
    ELSE LayerResult(Head(stack), baseRoute, isProtectedFn, protectionMiddlewareName) \o extractRoutesFromRouter(Tail(stack), baseRoute, isProtectedFn, protectionMiddlewareName)

\* ------------------------------------------------------------------------
\* Filter pipeline (extract-routes.ts).  filterDomain is None or
\* [isArray, items] with items strings (character sequences).
\* ------------------------------------------------------------------------
DomainStr(t) == [isArray |-> FALSE, items |-> <<t>>]
DomainList(ts) == [isArray |-> TRUE, items |-> ts]
\* Mutant: an empty list counts as no filter.
TruthyDomain_NonEmpty(o) == IsSome(o) /\ Get(o).items # <<>> /\ (Get(o).isArray \/ Get(o).items[1] # <<>>)
TruthyDomain(o) == IsSome(o) /\ (Get(o).isArray \/ Get(o).items[1] # <<>>)

\* s.split("/"): the pieces between the slashes, empty pieces included.
RECURSIVE Split(_)
Split(s) ==
    LET i == IndexOf(s, <<SL>>, 1)
    IN IF i = 0 \/ i > Len(s) THEN <<s>> ELSE <<Take(s, i - 1)>> \o Split(Drop(s, i))

\* route.path.toLowerCase().split("/").filter(Boolean)
PathSegments(path) == SelectSeq(Split(toLowerCase(path)), LAMBDA seg : seg # <<>>)

NormalizedDomain(domain) ==
    LET domainString == toLowerCase(domain)
    IN IF startsWith(domainString, <<SL>>) THEN Drop(domainString, 1) ELSE domainString

\* Mutant: the token is looked for anywhere in the path, not as a whole segment.
DomainMatches_Substring(route, domain) == includes(toLowerCase(route.path), NormalizedDomain(domain))
DomainMatches(route, domain) == LET pathSegments == PathSegments(route.path) IN \E k \in 1..Len(pathSegments) : pathSegments[k] = NormalizedDomain(domain)

applyDomainFilter(rs, filterDomain) ==
    LET domains == filterDomain.items
    IN SelectSeq(rs, LAMBDA route : \E d \in 1..Len(domains) : DomainMatches(route, domains[d]))

DomainStage(rs, filters) == IF TruthyDomain(filters.filterDomain) THEN applyDomainFilter(rs, Get(filters.filterDomain)) ELSE rs
PrefixStage(rs, filters) == IF IsSome(filters.pathPrefix) /\ TruthyStr(Get(filters.pathPrefix)) THEN SelectSeq(rs, LAMBDA route : startsWith(route.path, Get(filters.pathPrefix))) ELSE rs
\* Mutant: without showUnprotectedOnly the stage keeps the protected records only.
UnprotectedStage_Toggle(rs, filters) == IF filters.showUnprotectedOnly THEN SelectSeq(rs, LAMBDA route : ~route.protected) ELSE SelectSeq(rs, LAMBDA route : route.protected)
UnprotectedStage(rs, filters) == IF filters.showUnprotectedOnly THEN SelectSeq(rs, LAMBDA route : ~route.protected) ELSE rs
IncludeStage(rs, filters) == IF IsSome(filters.includeFilter) THEN SelectSeq(rs, LAMBDA route : ApplyPredicate(Get(filters.includeFilter), route)) ELSE rs
\* Mutant: the exclude predicate's result is not negated.
ExcludeStage_NotNegated(rs, filters) == IF IsSome(filters.excludeFilter) THEN SelectSeq(rs, LAMBDA route : ApplyPredicate(Get(filters.excludeFilter), route)) ELSE rs
ExcludeStage(rs, filters) == IF IsSome(filters.excludeFilter) THEN SelectSeq(rs, LAMBDA route : ~ApplyPredicate(Get(filters.excludeFilter), route)) ELSE rs

\* Mutant: the include predicate runs before the unprotected-only filter.
FilterOrder_IncludeEarly == <<"domain", "prefix", "include", "unprotected", "exclude">>
\* The order in which filterRoutes applies its stages.
FilterOrder == <<"domain", "prefix", "unprotected", "include", "exclude">>
StageAfter(stage) == LET k == CHOOSE i \in 1..Len(FilterOrder) : FilterOrder[i] = stage IN IF k = Len(FilterOrder) THEN "done" ELSE FilterOrder[k + 1]

\* The calls a stage makes to its predicate: Array.prototype.filter invokes
\* it once on every element of the list the stage receives, in order.
FilterCalls(fn, rs, pred) == IF IsSome(pred) THEN [i \in 1..Len(rs) |-> [fn |-> fn, arg |-> rs[i]]] ELSE <<>>

\* filterRoutes(routes, filters): the five stages applied one after the other
\* to a copy of the records.
filterRoutes(rs, filters) == ExcludeStage(IncludeStage(UnprotectedStage(PrefixStage(DomainStage(rs, filters), filters), filters), filters), filters)

\* The options extractRoutes destructures from config and hands to
\* filterRoutes; showUnprotectedOnly defaults to false.
FiltersOf(cfg) ==
    [filterDomain |-> cfg.filterDomain,
     pathPrefix |-> cfg.pathPrefix,
     showUnprotectedOnly |-> IF IsSome(cfg.showUnprotectedOnly) THEN Get(cfg.showUnprotectedOnly) ELSE FALSE,
     includeFilter |-> cfg.includeFilter,
     excludeFilter |-> cfg.excludeFilter]

\* ------------------------------------------------------------------------
\* One call of extractRoutes(app, config) as a state machine.  frames is the
\* call stack of extractRoutesFromRouter: each frame is the node list being
\* mapped, the index of the layer in hand and the base path; a frame's index
\* moves on when the layer's result has been concatenated.
\* visits records, per layer handled, the layer, its base path, the decoded
\* mounts above it, the branch taken, the records it emitted and its place
\* in the tree; calls
\* records every invocation of a caller-supplied predicate, in order.
\* ------------------------------------------------------------------------
Top == frames[Len(frames)]
Current == Top.stack[Top.idx]
HasCurrent == pc = "walk" /\ frames # <<>> /\ Top.idx <= Len(Top.stack)
\* Mutant: the map callback is handed the same layer again.
Advance_Stay(fs) == fs
Advance(fs) == [fs EXCEPT ![Len(fs)].idx = @ + 1]
\* Mutant: the node list is walked from its last layer to its first.
Frame_Reversed(stack, base) == [stack |-> [i \in 1..Len(stack) |-> stack[Len(stack) + 1 - i]], idx |-> 1, base |-> base]
Frame(stack, base) == [stack |-> stack, idx |-> 1, base |-> base]
\* The place of the layer in hand: its index in each node list from the root down.
Position(fs) == [k \in 1..Len(fs) |-> fs[k].idx]
MountChain(fs) == [k \in 1..(Len(fs) - 1) |-> extractBaseRoute(fs[k].stack[fs[k].idx].regexp)]
Visit(kind, emitted) == [layer |-> Current, base |-> Top.base, mounts |-> MountChain(frames), kind |-> kind, emitted |-> emitted, at |-> Position(frames)]

\* Mutant: the missing router is passed over without the console.warn.
NoRouter_Silent ==
    /\ pc = "start"
    /\ ~(IsSome(app) /\ IsSome(Get(app).router))
    /\ filtered' = <<>>
    /\ pc' = "done"
    /\ UNCHANGED <<util, app, config, frames, routes, visits, calls, warnings>>

\* const router = app?._router; if (!router) { console.warn(...); return []; }
NoRouter ==
    /\ pc = "start"
    /\ ~(IsSome(app) /\ IsSome(Get(app).router))
    /\ warnings' = warnings + 1
    /\ filtered' = <<>>
    /\ pc' = "done"
    /\ UNCHANGED <<util, app, config, frames, routes, visits, calls>>

\* extractRoutesFromRouter(router, "/", isProtectedFn, protectionMiddlewareName)
EnterRouter ==
    /\ pc = "start"
    /\ IsSome(app) /\ IsSome(Get(app).router)
    /\ HasFlatMap(Get(Get(app).router))
    /\ frames' = <<Frame(StackOf(Get(Get(app).router)), <<SL>>)>>
    /\ pc' = "walk"
    /\ UNCHANGED <<util, app, config, routes, filtered, visits, calls, warnings>>

VisitRouteLayer ==
    /\ HasCurrent
    /\ isRouteLayer(Current)
    /\ HasMethodMap(Current)
    /\ LET recs == extractRoutesFromRouteLayer(Current, Top.base, config.isProtected, config.protectionMiddlewareName)
       IN /\ routes' = routes \o recs
          /\ calls' = calls \o ProtectionCalls(Current, Top.base, config.isProtected)
          /\ visits' = Append(visits, Visit("route", recs))
    /\ frames' = Advance(frames)
    /\ UNCHANGED <<util, app, config, pc, filtered, warnings>>

VisitNestedRouter ==
    /\ HasCurrent
    /\ ~isRouteLayer(Current) /\ isNestedRouter(Current)
    /\ HasFlatMap(Get(Current.handle))
    /\ frames' = Append(frames, Frame(StackOf(Get(Current.handle)), NestedRouterBase(Current, Top.base)))
    /\ visits' = Append(visits, Visit("router", <<>>))
    /\ UNCHANGED <<util, app, config, pc, routes, filtered, calls, warnings>>

\* Mutant: the special-middleware branch does not stand back for the
\* nested-router branch.
VisitSpecialMiddleware_BeforeRouter ==
    /\ HasCurrent
    /\ ~isRouteLayer(Current) /\ isSpecialMiddleware(Current)
    /\ HasFlatMap(Get(Current.handle))
    /\ frames' = IF IsSome(Get(Current.handle).stack)
                 THEN Append(frames, Frame(StackOf(Get(Current.handle)), SpecialMiddlewareBase(Current, Top.base)))
                 ELSE Advance(frames)
    /\ visits' = Append(visits, Visit("special", <<>>))
    /\ UNCHANGED <<util, app, config, pc, routes, filtered, calls, warnings>>

VisitSpecialMiddleware ==
    /\ HasCurrent
    /\ ~isRouteLayer(Current) /\ ~isNestedRouter(Current) /\ isSpecialMiddleware(Current)
    /\ HasFlatMap(Get(Current.handle))
    /\ frames' = IF IsSome(Get(Current.handle).stack)
                 THEN Append(frames, Frame(StackOf(Get(Current.handle)), SpecialMiddlewareBase(Current, Top.base)))
                 ELSE Advance(frames)
    /\ visits' = Append(visits, Visit("special", <<>>))
    /\ UNCHANGED <<util, app, config, pc, routes, filtered, calls, warnings>>

\* Mutant: an ignored layer is reported with a console.warn.
SkipLayer_Warns ==
    /\ HasCurrent
    /\ ~isRouteLayer(Current) /\ ~isNestedRouter(Current) /\ ~isSpecialMiddleware(Current)
    /\ frames' = Advance(frames)
    /\ visits' = Append(visits, Visit("skipped", <<>>))
    /\ warnings' = warnings + 1
    /\ UNCHANGED <<util, app, config, pc, routes, filtered, calls>>

SkipLayer ==
    /\ HasCurrent
    /\ ~isRouteLayer(Current) /\ ~isNestedRouter(Current) /\ ~isSpecialMiddleware(Current)
    /\ frames' = Advance(frames)
    /\ visits' = Append(visits, Visit("skipped", <<>>))
    /\ UNCHANGED <<util, app, config, pc, routes, filtered, calls, warnings>>

\* Object.keys(route.methods) raises a TypeError for a route without a
\* method map; nothing catches it, so extractRoutes ends by throwing.
RouteLayerThrows ==
    /\ HasCurrent
    /\ isRouteLayer(Current)
    /\ ~HasMethodMap(Current)
    /\ pc' = "threw"
    /\ UNCHANGED <<util, app, config, frames, routes, filtered, visits, calls, warnings>>

\* stack.flatMap raises a TypeError when router.stack is truthy and not an
\* array: at the root router, or at the handle of a nested router or of a
\* special middleware.
EntersBrokenStack ==
    \/ pc = "start" /\ IsSome(app) /\ IsSome(Get(app).router) /\ ~HasFlatMap(Get(Get(app).router))
    \/ HasCurrent /\ ~isRouteLayer(Current) /\ (isNestedRouter(Current) \/ isSpecialMiddleware(Current)) /\ ~HasFlatMap(Get(Current.handle))
RouterStackThrows ==
    /\ EntersBrokenStack
    /\ pc' = "threw"
    /\ UNCHANGED <<util, app, config, frames, routes, filtered, visits, calls, warnings>>

\* Mutant: the outermost walk consumes the root node list (stack.shift()).
ReturnFromRouter_Draining ==
    /\ pc = "walk" /\ frames # <<>> /\ Top.idx > Len(Top.stack)
    /\ IF Len(frames) = 1
       THEN frames' = <<>> /\ filtered' = routes /\ pc' = FilterOrder[1] /\ app' = Some([router |-> Some([Get(Get(app).router) EXCEPT !.stack = Some(<<>>)])])
       ELSE frames' = Advance(SubSeq(frames, 1, Len(frames) - 1)) /\ UNCHANGED <<filtered, pc, app>>
    /\ UNCHANGED <<util, config, routes, visits, calls, warnings>>

\* stack.flatMap has handled every layer of the frame's node list.  The
\* outermost return hands the records to filterRoutes: [...routes].
ReturnFromRouter ==
    /\ pc = "walk" /\ frames # <<>> /\ Top.idx > Len(Top.stack)
    /\ IF Len(frames) = 1
       THEN frames' = <<>> /\ filtered' = routes /\ pc' = FilterOrder[1]
       ELSE frames' = Advance(SubSeq(frames, 1, Len(frames) - 1)) /\ UNCHANGED <<filtered, pc>>
    /\ UNCHANGED <<util, app, config, routes, visits, calls, warnings>>

ApplyDomainFilter ==
    /\ pc = "domain"
    /\ filtered' = DomainStage(filtered, FiltersOf(config))
    /\ pc' = StageAfter("domain")
    /\ UNCHANGED <<util, app, config, frames, routes, visits, calls, warnings>>

ApplyPathPrefix ==
    /\ pc = "prefix"
    /\ filtered' = PrefixStage(filtered, FiltersOf(config))
    /\ pc' = StageAfter("prefix")
    /\ UNCHANGED <<util, app, config, frames, routes, visits, calls, warnings>>

ApplyUnprotectedOnly ==
    /\ pc = "unprotected"
    /\ filtered' = UnprotectedStage(filtered, FiltersOf(config))
    /\ pc' = StageAfter("unprotected")
    /\ UNCHANGED <<util, app, config, frames, routes, visits, calls, warnings>>

ApplyIncludeFilter ==
    /\ pc = "include"
    /\ filtered' = IncludeStage(filtered, FiltersOf(config))
    /\ calls' = calls \o FilterCalls("includeFilter", filtered, FiltersOf(config).includeFilter)
    /\ pc' = StageAfter("include")
    /\ UNCHANGED <<util, app, config, frames, routes, visits, warnings>>

\* The last stage; filtered is then the value extractRoutes returns.
ApplyExcludeFilter ==
    /\ pc = "exclude"
    /\ filtered' = ExcludeStage(filtered, FiltersOf(config))
    /\ calls' = calls \o FilterCalls("excludeFilter", filtered, FiltersOf(config).excludeFilter)
    /\ pc' = StageAfter("exclude")
    /\ UNCHANGED <<util, app, config, frames, routes, visits, warnings>>

Next ==
    \/ NoRouter
    \/ EnterRouter
    \/ VisitRouteLayer
    \/ VisitNestedRouter
    \/ VisitSpecialMiddleware
    \/ SkipLayer
    \/ RouteLayerThrows
    \/ RouterStackThrows
    \/ ReturnFromRouter
    \/ ApplyDomainFilter
    \/ ApplyPathPrefix
    \/ ApplyUnprotectedOnly
    \/ ApplyIncludeFilter
    \/ ApplyExcludeFilter

\* ------------------------------------------------------------------------
\* Inputs: routing trees as Express builds them, and configurations.
\* ------------------------------------------------------------------------
\* Every string over alphabet of length at most n.
RECURSIVE Strings(_, _)
Strings(alphabet, n) == IF n = 0 THEN {<<>>} ELSE Strings(alphabet, n - 1) \cup {Append(t, c) : t \in {u \in Strings(alphabet, n - 1) : Len(u) = n - 1}, c \in alphabet}
\* Every sequence over S of length at most n.
RECURSIVE SeqsUpTo(_, _)
SeqsUpTo(S, n) == IF n = 0 THEN {<<>>} ELSE SeqsUpTo(S, n - 1) \cup {Append(t, x) : t \in {u \in SeqsUpTo(S, n - 1) : Len(u) = n - 1}, x \in S}

\* The text of the matcher Express compiles for a literal mount path p
\* ("/^\/api\/users\/?(?=\/|$)/i"); the root mount "/" gives "/^\/?(?=\/|$)/i".
MountRegexp(p) == <<SL, "^">> \o (IF p = <<SL>> THEN <<>> ELSE ReplaceAll(p, <<SL>>, <<BS, SL>>)) \o RootLookahead \o <<SL, "i">>
\* A matcher text without the "^\/" anchor: /^(?:\/a)\/?$/i
GroupedRegexp == <<SL, "^", "(", "?", ":", BS, SL, "a", ")", BS, SL, "?", "$", SL, "i">>
\* A matcher text no heuristic recognises: /x/
OpaqueRegexp == <<SL, "x", SL>>

Fn(name) == [handle |-> None, name |-> name]
Wrapper(fn) == [handle |-> Some(fn), name |-> "handle"]
Method(name, on) == [name |-> name, on |-> on]
GET == <<"g", "e", "t">>
POST == <<"p", "o", "s", "t">>
PUT == <<"p", "u", "t">>
FunctionHandle == Some([isFunction |-> TRUE, stack |-> None, stackIsArray |-> FALSE])

RouteLayer(path, methods, stack) == [route |-> Some([path |-> path, methods |-> Some(methods), stack |-> stack]), name |-> "bound dispatch", handle |-> FunctionHandle, regexp |-> Some(MountRegexp(<<SL>>))]
RouterLayer(regexp, stack) == [route |-> None, name |-> "router", handle |-> Some([isFunction |-> TRUE, stack |-> Some(stack), stackIsArray |-> TRUE]), regexp |-> regexp]
MountedAppLayer(regexp, stack) == [route |-> None, name |-> "mounted_app", handle |-> Some([isFunction |-> TRUE, stack |-> Some(stack), stackIsArray |-> TRUE]), regexp |-> regexp]
MiddlewareLayer(name, regexp) == [route |-> None, name |-> name, handle |-> FunctionHandle, regexp |-> regexp]
InertLayer == [route |-> None, name |-> "anonymous", handle |-> Some([isFunction |-> FALSE, stack |-> None, stackIsArray |-> FALSE]), regexp |-> None]
\* A layer whose route descriptor has a path and no method map.
RouteLayerWithoutMethods(path) == [route |-> Some([path |-> path, methods |-> None, stack |-> None]), name |-> "bound dispatch", handle |-> FunctionHandle, regexp |-> Some(MountRegexp(<<SL>>))]
\* A layer named "router" whose handle.stack is an object that is not an array.
RouterLayerWithObjectStack(regexp) == [route |-> None, name |-> "router", handle |-> Some([isFunction |-> TRUE, stack |-> Some(<<>>), stackIsArray |-> FALSE]), regexp |-> regexp]
GetRoute(fragment) == RouteLayer(Str(fragment), <<Method(GET, TRUE)>>, Some(<<Wrapper(Fn(""))>>))

AppOf(stack) == Some([router |-> Some([stack |-> Some(stack), stackIsArray |-> TRUE])])
\* null / undefined, an app without _router, a router without a stack.
EmptyApps == {None, Some([router |-> None]), Some([router |-> Some([stack |-> None, stackIsArray |-> FALSE])])}
\* An app whose _router.stack is an object that is not an array.
BrokenApps == {Some([router |-> Some([stack |-> Some(<<>>), stackIsArray |-> FALSE])])}

DefaultConfig ==
    [filterDomain |-> None, domainFilter |-> None, pathPrefix |-> None, showUnprotectedOnly |-> None,
     isProtected |-> None, includeFilter |-> None, excludeFilter |-> None, protectionMiddlewareName |-> None]

\* Trees that differ in nesting: a chain of at most d mounts above one GET
\* route whose fragment is any short string.
Fragments == Strings({SL, "a"}, MaxFragLen)
MountTexts == {MountRegexp(<<SL>>), MountRegexp(<<SL, "a">>), MountRegexp(<<SL, "b">>), GroupedRegexp}
RECURSIVE ChainStacks(_)
ChainStacks(d) == {<<GetRoute(f)>> : f \in Fragments} \cup (IF d = 0 THEN {} ELSE {<<RouterLayer(Some(m), s)>> : m \in MountTexts, s \in ChainStacks(d - 1)})

\* Trees that differ in the kinds of sibling layers.
KindLayers ==
    { RouteLayer(Str(<<SL, "a">>), <<Method(GET, TRUE), Method(POST, TRUE)>>, Some(<<Wrapper(Fn("ensureAuthenticated")), Wrapper(Fn(""))>>)),
      RouteLayer(Str(<<SL, "b">>), <<Method(GET, TRUE), Method(POST, FALSE), Method(PUT, TRUE)>>, None),
      RouteLayer(Str(<<"b">>), <<Method(GET, FALSE)>>, Some(<<Fn("requireAdmin")>>)),
      RouteLayer(ReText(<<SL, "^", BS, SL, "a", "(", "b", ")", SL>>), <<Method(GET, TRUE)>>, Some(<<>>)),
      RouterLayer(Some(MountRegexp(<<SL, "a">>)), <<GetRoute(<<SL, "b">>)>>),
      RouterLayer(None, <<GetRoute(<<SL, "b">>), GetRoute(<<SL>>)>>),
      MountedAppLayer(Some(MountRegexp(<<SL, "b">>)), <<GetRoute(<<SL, "a">>)>>),
      MiddlewareLayer("logger", Some(OpaqueRegexp)),
      InertLayer,
      RouteLayerWithoutMethods(Str(<<SL, "a">>)),
      RouterLayerWithObjectStack(Some(MountRegexp(<<SL, "a">>))) }
KindStacks == SeqsUpTo(KindLayers, MaxWidth)

InitOf(apps, configs) ==
    /\ app \in apps
    /\ config \in configs
    /\ pc = "start"
    /\ frames = <<>>
    /\ routes = <<>>
    /\ filtered = <<>>
    /\ visits = <<>>
    /\ calls = <<>>
    /\ warnings = 0
    /\ util = None

\* extractRoutes over trees of every nesting and sibling shape, default configuration.
\* A layer every classifier accepts: a route descriptor on a layer named
\* "router" whose handle is a function with a stack, and a regexp.
HybridRouteLayer ==
    [route |-> Some([path |-> Str(<<SL, "a">>), methods |-> Some(<<Method(GET, TRUE)>>), stack |-> None]),
     name |-> "router",
     handle |-> Some([isFunction |-> TRUE, stack |-> Some(<<GetRoute(<<SL, "b">>)>>), stackIsArray |-> TRUE]),
     regexp |-> Some(MountRegexp(<<SL, "b">>))]
HybridStacks == {<<HybridRouteLayer>>} \cup {<<HybridRouteLayer, l>> : l \in KindLayers} \cup {<<l, HybridRouteLayer>> : l \in KindLayers}
WalkApps == EmptyApps \cup BrokenApps \cup {AppOf(s) : s \in ChainStacks(MaxDepth) \cup KindStacks \cup HybridStacks}
InitWalk == InitOf(WalkApps, {DefaultConfig})
SpecWalk == InitWalk /\ [][Next]_vars
\* The call is synchronous and runs to its end: a step that can be taken is
\* taken.  Trees of every depth over one fragment, and every single layer.
RECURSIVE DeepStacks(_)
DeepStacks(d) == {<<GetRoute(<<SL, "a">>)>>} \cup (IF d = 0 THEN {} ELSE {<<RouterLayer(Some(m), s)>> : m \in MountTexts, s \in DeepStacks(d - 1)})
LiveApps == EmptyApps \cup BrokenApps \cup {AppOf(s) : s \in DeepStacks(MaxDepth)} \cup {AppOf(<<l, InertLayer>>) : l \in KindLayers}
InitWalkLive == InitOf(LiveApps, {DefaultConfig})
\* The call keeps running until it returns or raises: weak fairness of Next,
\* WF_vars(Next), with ENABLED <<Next>>_vars written out as the condition
\* under which an action of Next has its guard true (pc is not final).
SpecWalkLive == InitWalkLive /\ [][Next]_vars /\ ([]<>(pc \in {"done", "threw"}) \/ []<><<Next>>_vars)

\* extractRoutes over routes that differ in their handlers, under every
\* protection configuration; the sibling-shape trees keep the default one.
Handlers == {Wrapper(Fn("ensureAuthenticated")), Wrapper(Fn("requireAdmin")), Wrapper(Fn("")), Fn("logger")}
ProtectStacks == {<<RouteLayer(Str(<<SL, "a">>), <<Method(GET, TRUE), Method(POST, TRUE)>>, Some(hs))>> : hs \in SeqsUpTo(Handlers, MaxWidth)}
ProtectConfigs ==
    {[DefaultConfig EXCEPT !.isProtected = p, !.protectionMiddlewareName = n, !.showUnprotectedOnly = u] :
        p \in {None, Some("always"), Some("never"), Some("isGet"), Some("noAdmin")},
        n \in {None, Some(NameStr("ensureAuthenticated")), Some(NameStr("EnsureAuthenticated")), Some(NameStr("")),
               Some(NameList(<<"ensureAuthenticated", "requireAdmin">>)), Some(NameList(<<"requireAdmin">>)), Some(NameList(<<>>))},
        u \in {None, Some(TRUE)}}
KindApps == EmptyApps \cup BrokenApps \cup {AppOf(s) : s \in KindStacks}
\* Custom predicates that look at the path and at the method they are given.
PredicateConfigs == {[DefaultConfig EXCEPT !.isProtected = Some(p)] : p \in {"underA", "isGet"}}
InitProtect == InitOf({AppOf(s) : s \in ProtectStacks}, ProtectConfigs) \/ InitOf(KindApps, {DefaultConfig} \cup PredicateConfigs)
SpecProtect == InitProtect /\ [][Next]_vars

\* extractRoutes over records that differ in path, method and protection,
\* under every combination of filters.
Guarded == Some(<<Wrapper(Fn("ensureAuthenticated")), Wrapper(Fn(""))>>)
FilterLayers ==
    { RouteLayer(Str(<<SL, "a">>), <<Method(GET, TRUE)>>, Guarded),
      RouteLayer(Str(<<SL, "a", "b">>), <<Method(GET, TRUE), Method(POST, TRUE)>>, None),
      RouterLayer(Some(MountRegexp(<<SL, "b">>)), <<RouteLayer(Str(<<SL, "a", SL>>), <<Method(GET, TRUE)>>, Guarded)>>),
      RouterLayer(Some(MountRegexp(<<SL>>)), <<RouteLayer(Str(<<SL, "A", SL, "b">>), <<Method(POST, TRUE)>>, None), RouteLayer(Str(<<SL, "a">>), <<Method(GET, TRUE)>>, Guarded)>>) }
FilterStacks == SeqsUpTo(FilterLayers, MaxWidth)
FilterConfigs ==
    {[DefaultConfig EXCEPT !.protectionMiddlewareName = Some(NameStr("ensureAuthenticated")), !.filterDomain = d,
                           !.pathPrefix = x, !.showUnprotectedOnly = u, !.includeFilter = i, !.excludeFilter = e] :
        d \in {None, Some(DomainStr(<<"a">>)), Some(DomainStr(<<SL, "A">>)), Some(DomainStr(<<>>)),
               Some(DomainList(<<<<"a", "b">>, <<SL, "B">>>>)), Some(DomainList(<<>>))},
        x \in {None, Some(<<SL, "a">>)},
        u \in {None, Some(TRUE)},
        i \in {None, Some("isGet"), Some("underA")},
        e \in {None, Some("isProtected"), Some("isGet")}}
\* Configurations that carry the option under the name domainFilter.
DomainFilterConfigs ==
    {[DefaultConfig EXCEPT !.domainFilter = d, !.pathPrefix = x] :
        d \in {Some(DomainStr(<<"a">>)), Some(DomainList(<<<<"a", "b">>, <<"b">>>>))},
        x \in {None, Some(<<>>), Some(<<SL, "a">>)}}
\* Configurations with a custom isProtected predicate and both custom filters.
PredicateFilterConfigs ==
    {[DefaultConfig EXCEPT !.isProtected = Some("isGet"), !.filterDomain = d, !.includeFilter = Some("underA"), !.excludeFilter = Some(e)] :
        d \in {None, Some(DomainStr(<<"a">>))},
        e \in {"isProtected", "never"}}
InitFilter == InitOf({AppOf(s) : s \in FilterStacks}, FilterConfigs \cup DomainFilterConfigs \cup PredicateFilterConfigs) \/ InitOf(KindApps, {DefaultConfig})
SpecFilter == InitFilter /\ [][Next]_vars

\* ------------------------------------------------------------------------
\* The exported path utilities called on their own: util holds the function
\* called, its arguments and, once it has returned, its result.
\* ------------------------------------------------------------------------
UtilCall(fn, args) == [fn |-> fn, args |-> args, result |-> None]
Pending(fn) == IsSome(util) /\ Get(util).fn = fn /\ ~IsSome(Get(util).result)
Returns(value) == util' = Some([Get(util) EXCEPT !.result = Some(value)])

CallExtractBaseRoute ==
    /\ Pending("extractBaseRoute")
    /\ Returns(extractBaseRoute(Get(util).args[1]))
    /\ UNCHANGED <<app, config, pc, frames, routes, filtered, visits, calls, warnings>>

CallCombinePaths ==
    /\ Pending("combinePaths")
    /\ Returns(combinePaths(Get(util).args[1], Get(util).args[2]))
    /\ UNCHANGED <<app, config, pc, frames, routes, filtered, visits, calls, warnings>>

CallNormalizeRoutePath ==
    /\ Pending("normalizeRoutePath")
    /\ Returns(normalizeRoutePath(Get(util).args[1]))
    /\ UNCHANGED <<app, config, pc, frames, routes, filtered, visits, calls, warnings>>

CallIsRouteLayer ==
    /\ Pending("isRouteLayer")
    /\ Returns(isRouteLayer(Get(util).args[1]))
    /\ UNCHANGED <<app, config, pc, frames, routes, filtered, visits, calls, warnings>>

CallIsNestedRouter ==
    /\ Pending("isNestedRouter")
    /\ Returns(isNestedRouter(Get(util).args[1]))
    /\ UNCHANGED <<app, config, pc, frames, routes, filtered, visits, calls, warnings>>

CallIsSpecialMiddleware ==
    /\ Pending("isSpecialMiddleware")
    /\ Returns(isSpecialMiddleware(Get(util).args[1]))
    /\ UNCHANGED <<app, config, pc, frames, routes, filtered, visits, calls, warnings>>

NextUtil ==
    \/ CallExtractBaseRoute
    \/ CallCombinePaths
    \/ CallNormalizeRoutePath
    \/ CallIsRouteLayer
    \/ CallIsNestedRouter
    \/ CallIsSpecialMiddleware

\* regexp.toString() of a matcher: "/", the source, "/", the flags.  The
\* sources are every short string over the characters the decoder looks at.
MatcherChars == {"^", BS, SL, "?", "(", ")", "$", "a"}
MatcherTexts ==
    {<<SL>> \o src \o <<SL>> \o flags : src \in Strings(MatcherChars, MaxTextLen), flags \in {<<>>, <<"i">>}}
        \cup {GroupedRegexp, OpaqueRegexp, <<SL, "^", BS, SL, "?", "$", SL, "i">>}
\* Literal paths: "/"-led segments of letters, as in "/api/users".
IsLiteralPath(p) == p # <<>> /\ p[1] = SL /\ p[Len(p)] # SL /\ \A i \in 1..(Len(p) - 1) : ~(p[i] = SL /\ p[i + 1] = SL)
LiteralPaths == {p \in Strings({SL, "a", "B"}, MaxFragLen + 2) : IsLiteralPath(p)}
\* Values that are neither strings nor matchers, by their toString() text:
\* 123 gives "123", an object may give any text; null and undefined give none.
OtherValues == {Nullish, ObjText(<<"1", "2", "3">>)} \cup {ObjText(t) : t \in Fragments}

\* What a classifier may be handed: null, undefined, 0, 7, "", "x", false,
\* true, and every layer object over present / absent route, name, handle
\* (absent, an object or a function, with or without a stack) and regexp.
Primitives == {Primitive("null", FALSE), Primitive("undefined", FALSE), Primitive("number", FALSE), Primitive("number", TRUE), Primitive("string", FALSE), Primitive("string", TRUE), Primitive("boolean", FALSE), Primitive("boolean", TRUE)}
ClassifierHandles == {None} \cup {Some([isFunction |-> f, stack |-> st, stackIsArray |-> IsSome(st)]) : f \in BOOLEAN, st \in {None, Some(<<>>)}}
ClassifierLayers ==
    {[route |-> r, name |-> n, handle |-> h, regexp |-> x] :
        r \in {None, Some([path |-> Str(<<SL, "a">>), methods |-> Some(<<Method(GET, TRUE)>>), stack |-> None])},
        n \in {"router", "anonymous"},
        h \in ClassifierHandles,
        x \in {None, Some(MountRegexp(<<SL, "a">>))}}
Classifiers == {"isRouteLayer", "isNestedRouter", "isSpecialMiddleware"}

UtilCalls ==
    {UtilCall("extractBaseRoute", <<None>>)}
        \cup {UtilCall("extractBaseRoute", <<Some(t)>>) : t \in MatcherTexts \cup {MountRegexp(p) : p \in LiteralPaths}}
        \cup {UtilCall("combinePaths", <<b, Str(r)>>) : b \in Fragments, r \in Fragments}
        \cup {UtilCall("normalizeRoutePath", <<v>>) : v \in {Str(t) : t \in Fragments} \cup {ReText(t) : t \in MatcherTexts} \cup OtherValues}
        \cup {UtilCall(fn, <<v>>) : fn \in Classifiers, v \in Primitives \cup ClassifierLayers}
InitUtil ==
    /\ util \in {Some(c) : c \in UtilCalls}
    /\ app = None
    /\ config = DefaultConfig
    /\ pc = "idle"
    /\ frames = <<>>
    /\ routes = <<>>
    /\ filtered = <<>>
    /\ visits = <<>>
    /\ calls = <<>>
    /\ warnings = 0
SpecUtil == InitUtil /\ [][NextUtil]_vars

\* ------------------------------------------------------------------------
\* Route table printer (print-routes.ts).  A console.log line is a record
\* of what it shows; the padding and the colours of a line are left out.
\* ------------------------------------------------------------------------
\* path.split("/").filter(Boolean)
NonEmptyParts(path) == SelectSeq(Split(path), LAMBDA part : part # <<>>)
extractDomain(path) ==
    LET parts == NonEmptyParts(path)
    IN IF Len(parts) >= 2 /\ parts[1] = <<"a", "p", "i">> THEN parts[2] ELSE <<"r", "o", "o", "t">>
formatDomainName(domain) == IF domain = <<"r", "o", "o", "t">> THEN <<"R", "o", "o", "t">> ELSE <<UpperChar(domain[1])>> \o Tail(domain)

\* a.method in methodPriority ? methodPriority[a.method] : 99
MethodPriority(method) ==
    CASE method = <<"G", "E", "T">> -> 0
      [] method = <<"P", "O", "S", "T">> -> 1
      [] method = <<"P", "U", "T">> -> 2
      [] method = <<"P", "A", "T", "C", "H">> -> 3
      [] method = <<"D", "E", "L", "E", "T", "E">> -> 4
      [] OTHER -> 99

\* String.prototype.localeCompare on words of ASCII letters: the letters are
\* compared without regard to case first; words that differ in case only
\* are ordered by their first such letter, the lower-case one first.
LetterRank(c) == CHOOSE i \in 1..26 : LowerLetters[i] = LowerChar(c)
RECURSIVE ComparePrimary(_, _)
ComparePrimary(s, t) ==
    IF s = <<>> /\ t = <<>> THEN 0
    ELSE IF s = <<>> THEN -1
    ELSE IF t = <<>> THEN 1
    ELSE IF LetterRank(s[1]) < LetterRank(t[1]) THEN -1
    ELSE IF LetterRank(s[1]) > LetterRank(t[1]) THEN 1
    ELSE ComparePrimary(Tail(s), Tail(t))
RECURSIVE CompareCase(_, _)
CompareCase(s, t) ==
    IF s = <<>> \/ t = <<>> THEN 0
    ELSE IF s[1] = t[1] THEN CompareCase(Tail(s), Tail(t))
    ELSE IF s[1] = LowerChar(s[1]) THEN -1 ELSE 1
localeCompare(s, t) == IF ComparePrimary(s, t) # 0 THEN ComparePrimary(s, t) ELSE CompareCase(s, t)

\* The comparator printRoutes hands to routes.sort.
CompareRoutes(a, b) ==
    LET aDomain == extractDomain(a.path)
        bDomain == extractDomain(b.path)
    IN IF aDomain # bDomain THEN localeCompare(aDomain, bDomain) ELSE MethodPriority(a.method) - MethodPriority(b.method)
\* Array.prototype.sort is stable: an element stays behind every element
\* before it that the comparator does not put after it.
RECURSIVE InsertSorted(_, _)
InsertSorted(sorted, x) ==
    IF sorted = <<>> \/ CompareRoutes(sorted[Len(sorted)], x) <= 0 THEN Append(sorted, x)
    ELSE Append(InsertSorted(SubSeq(sorted, 1, Len(sorted) - 1), x), sorted[Len(sorted)])
RECURSIVE SortRoutes(_)
SortRoutes(rs) == IF rs = <<>> THEN <<>> ELSE InsertSorted(SortRoutes(SubSeq(rs, 1, Len(rs) - 1)), rs[Len(rs)])

\* Object.keys(groupedRoutes).sort(): the default sort orders strings by
\* their UTF-16 code units.
CodeUnit(c) ==
    IF \E i \in 1..26 : UpperLetters[i] = c THEN 64 + (CHOOSE i \in 1..26 : UpperLetters[i] = c)
    ELSE IF \E i \in 1..26 : LowerLetters[i] = c THEN 96 + (CHOOSE i \in 1..26 : LowerLetters[i] = c)
    ELSE 47
RECURSIVE CodeUnitLess(_, _)
CodeUnitLess(s, t) ==
    IF t = <<>> THEN FALSE
    ELSE IF s = <<>> THEN TRUE
    ELSE IF s[1] = t[1] THEN CodeUnitLess(Tail(s), Tail(t))
    ELSE CodeUnit(s[1]) < CodeUnit(t[1])
RECURSIVE SortedNames(_)
SortedNames(names) ==
    IF names = {} THEN <<>>
    ELSE LET least == CHOOSE x \in names : \A y \in names \ {x} : CodeUnitLess(x, y)
         IN <<least>> \o SortedNames(names \ {least})

\* groupedRoutes is a plain object ({}): for a domain that names a property
\* of Object.prototype (these three among others), groupedRoutes[domain] is
\* that inherited value, the empty list is never stored, and .push is not
\* a function.
ObjectPrototypeKeys == {<<"c", "o", "n", "s", "t", "r", "u", "c", "t", "o", "r">>, <<"t", "o", "S", "t", "r", "i", "n", "g">>, <<"v", "a", "l", "u", "e", "O", "f">>}
DomainsOf(rs) == {extractDomain(rs[i].path) : i \in 1..Len(rs)}
GroupOf(rs, domain) == SelectSeq(rs, LAMBDA r : extractDomain(r.path) = domain)

Line(kind) == [kind |-> kind, group |-> <<>>, method |-> <<>>, path |-> <<>>, protected |-> FALSE]
\* The rows of one group: the group's name is shown on its first row only.
GroupRows(group, rs) == [i \in 1..Len(rs) |-> [kind |-> "row", group |-> IF i = 1 THEN formatDomainName(group) ELSE <<>>, method |-> rs[i].method, path |-> rs[i].path, protected |-> rs[i].protected]]
RECURSIVE RowsOf(_, _)
RowsOf(groups, rs) == IF groups = <<>> THEN <<>> ELSE GroupRows(Head(groups), GroupOf(rs, Head(groups))) \o RowsOf(Tail(groups), rs)

\* printRoutes(routes): what it logs, and whether it ends by throwing.
printRoutes(rs) ==
    IF rs = <<>> THEN [threw |-> FALSE, lines |-> <<Line("No routes found matching your criteria")>>]
    ELSE LET sorted == SortRoutes(rs)
         IN IF DomainsOf(sorted) \cap ObjectPrototypeKeys # {} THEN [threw |-> TRUE, lines |-> <<>>]
            ELSE [threw |-> FALSE, lines |-> <<Line("header"), Line("rule")>> \o RowsOf(SortedNames(DomainsOf(sorted)), sorted) \o <<Line("blank")>>]

CallPrintRoutes ==
    /\ Pending("printRoutes")
    /\ Returns(printRoutes(Get(util).args[1]))
    /\ UNCHANGED <<app, config, pc, frames, routes, filtered, visits, calls, warnings>>

NextPrint == CallPrintRoutes

\* Route lists of up to MaxRows records over paths in and out of /api and
\* methods with and without a priority.
MaxRows == 3
PrintPaths == {<<SL>>, <<SL>> \o <<"a", "p", "i">>, <<SL>> \o <<"a", "p", "i">> \o <<SL, "a">>, <<SL>> \o <<"a", "p", "i">> \o <<SL, "B", SL, "x">>, <<SL>> \o <<"a", "p", "i">> \o <<SL>> \o <<"c", "o", "n", "s", "t", "r", "u", "c", "t", "o", "r">>}
PrintMethods == {<<"G", "E", "T">>, <<"P", "O", "S", "T">>, <<"H", "E", "A", "D">>}
PrintRecords == {[method |-> m, path |-> p, protected |-> m = <<"P", "O", "S", "T">>, middlewares |-> <<>>] : m \in PrintMethods, p \in PrintPaths}
InitPrint ==
    /\ util \in {Some(UtilCall("printRoutes", <<rs>>)) : rs \in SeqsUpTo(PrintRecords, MaxRows)}
    /\ app = None
    /\ config = DefaultConfig
    /\ pc = "idle"
    /\ frames = <<>>
    /\ routes = <<>>
    /\ filtered = <<>>
    /\ visits = <<>>
    /\ calls = <<>>
    /\ warnings = 0
SpecPrint == InitPrint /\ [][NextPrint]_vars

\* ------------------------------------------------------------------------
\* Properties.
\* ------------------------------------------------------------------------
Range(f) == {f[i] : i \in DOMAIN f}
RouteVisits == {v \in Range(visits) : v.kind = "route"}
FragmentOf(v) == Get(v.layer.route).path
StringFragmentsOnly == \A v \in RouteVisits : FragmentOf(v).kind = "string"

\* A normalized absolute path: leading "/", no "//", no trailing "/" but in "/".
NoDoubleSlash(p) == \A i \in 1..(Len(p) - 1) : ~(p[i] = SL /\ p[i + 1] = SL)
NormalizedAbsolute(p) == p # <<>> /\ p[1] = SL /\ NoDoubleSlash(p) /\ (p[Len(p)] = SL => p = <<SL>>)

\* C1: every record extractRoutes returns for a tree whose route fragments
\* are strings has a path that starts with "/", holds no "//" and does not
\* end with "/" unless it is "/".
C1_ReturnedPathsNormalized == (pc = "done" /\ StringFragmentsOnly) => \A i \in 1..Len(filtered) : NormalizedAbsolute(filtered[i].path)

\* The same statement for trees whose fragments all start with "/".
C1_SlashFragmentsNormalized == (\A v \in RouteVisits : FragmentOf(v).kind = "string" /\ startsWith(FragmentOf(v).text, <<SL>>)) => \A i \in 1..Len(routes) : NormalizedAbsolute(routes[i].path)

\* The concatenation m1/m2/.../mn/f, normalized: runs of "/" collapsed, the
\* trailing "/" dropped, the empty path read as "/".
RECURSIVE JoinWithSlash(_)
JoinWithSlash(parts) == IF Len(parts) = 1 THEN parts[1] ELSE parts[1] \o <<SL>> \o JoinWithSlash(Tail(parts))
DropTrailingSlashes(p) == IF \E i \in 1..Len(p) : p[i] # SL THEN Take(p, CHOOSE i \in 1..Len(p) : p[i] # SL /\ \A j \in (i + 1)..Len(p) : p[j] = SL) ELSE <<>>
RECURSIVE SqueezeSlashes(_)
SqueezeSlashes(p) == IF Len(p) < 2 THEN p ELSE IF p[1] = SL /\ p[2] = SL THEN SqueezeSlashes(Tail(p)) ELSE <<p[1]>> \o SqueezeSlashes(Tail(p))
NormalizedJoin(mounts, fragment) ==
    LET joined == DropTrailingSlashes(SqueezeSlashes(JoinWithSlash(Append(mounts, fragment))))
    IN IF joined = <<>> THEN <<SL>> ELSE joined

\* C2: a route with fragment f under mounts decoding to m1..mn is emitted
\* with the normalized concatenation m1/.../mn/f as its path, at every depth.
C2_PathIsNormalizedConcatenation == \A v \in RouteVisits : FragmentOf(v).kind = "string" => \A i \in 1..Len(v.emitted) : v.emitted[i].path = NormalizedJoin(v.mounts, FragmentOf(v).text)

\* The same statement for the fragments that start with "/".
C2_SlashFragmentsConcatenate == \A v \in RouteVisits : (FragmentOf(v).kind = "string" /\ startsWith(FragmentOf(v).text, <<SL>>)) => \A i \in 1..Len(v.emitted) : v.emitted[i].path = NormalizedJoin(v.mounts, FragmentOf(v).text)

\* The j-th method of a method map that is marked true.
TrueMethods(methods) == {i \in 1..Len(methods) : methods[i].on}
NthTrueMethod(methods, j) == methods[CHOOSE i \in TrueMethods(methods) : Cardinality({k \in TrueMethods(methods) : k <= i}) = j]
RECURSIVE EmittedBy(_)
EmittedBy(vs) == IF vs = <<>> THEN <<>> ELSE Head(vs).emitted \o EmittedBy(Tail(vs))

\* C3: a route whose method map marks k methods true yields exactly k
\* records, the j-th for the j-th true method with its name in upper case,
\* all with one path and one middleware list; the walk's records are the
\* records of the routes visited, in order.
C3_OneRecordPerTrueMethod ==
    /\ routes = EmittedBy(visits)
    /\ \A v \in RouteVisits :
         LET methods == Get(Get(v.layer.route).methods)
         IN /\ Len(v.emitted) = Cardinality(TrueMethods(methods))
            /\ \A j \in 1..Len(v.emitted) :
                 /\ v.emitted[j].method = toUpperCase(NthTrueMethod(methods, j).name)
                 /\ \A c \in Range(v.emitted[j].method) : c \notin Range(LowerLetters)
                 /\ v.emitted[j].path = v.emitted[1].path
                 /\ v.emitted[j].middlewares = v.emitted[1].middlewares
                 /\ v.emitted[j].middlewares = extractMiddlewares(Get(v.layer.route))

\* A route declaring GET and PUT but marking POST false has been returned
\* as exactly its two records.
C3_Witness == pc = "done" /\ \E v \in RouteVisits : Len(Get(Get(v.layer.route).methods)) = 3 /\ Len(v.emitted) = 2 /\ Len(filtered) = 2

\* ---- protection -------------------------------------------------------
\* The names a protectionMiddlewareName option supplies: the one name of a
\* string, every item of a list.
SuppliedNames(o) == IF IsSome(o) THEN Range(Get(o).items) \ {""} ELSE {}
NamesSupplied(o) == IsSome(o) /\ (Get(o).isArray \/ Get(o).items[1] # "")
HasNamedMiddleware(r, names) == \E i \in 1..Len(r.middlewares) : r.middlewares[i].name \in names

\* C4: without a custom predicate, and with protectionMiddlewareName a name
\* or a list of names, a record is protected iff one of its middlewares
\* has exactly one of the supplied names.
C4_ProtectedIffNamedMiddleware == (~IsSome(config.isProtected) /\ NamesSupplied(config.protectionMiddlewareName)) => \A i \in 1..Len(routes) : routes[i].protected <=> HasNamedMiddleware(routes[i], SuppliedNames(config.protectionMiddlewareName))

\* The same statement for an option that is a single name.
C4_SingleNameExact == (~IsSome(config.isProtected) /\ NamesSupplied(config.protectionMiddlewareName) /\ ~Get(config.protectionMiddlewareName).isArray) => \A i \in 1..Len(routes) : routes[i].protected <=> HasNamedMiddleware(routes[i], SuppliedNames(config.protectionMiddlewareName))

\* C5: with a custom isProtected predicate and protectionMiddlewareName
\* both supplied, every record's protected is the predicate's result for
\* that record, whatever its middlewares are named.
C5_PredicateWins == (IsSome(config.isProtected) /\ IsSome(config.protectionMiddlewareName)) => \A i \in 1..Len(routes) : routes[i].protected = ApplyPredicate(Get(config.isProtected), [path |-> routes[i].path, method |-> routes[i].method, middlewares |-> routes[i].middlewares])

\* Both options supplied; a returned record carries a middleware of the
\* supplied name and is unprotected because the predicate said so.
C5_Witness == pc = "done" /\ IsSome(config.isProtected) /\ NamesSupplied(config.protectionMiddlewareName) /\ \E i \in 1..Len(filtered) : ~filtered[i].protected /\ HasNamedMiddleware(filtered[i], SuppliedNames(config.protectionMiddlewareName))

\* C6: with neither a predicate nor a protection middleware name, every
\* record extractRoutes returns is unprotected, whatever its middlewares.
C6_DefaultUnprotected == (~IsSome(config.isProtected) /\ ~IsSome(config.protectionMiddlewareName)) => (\A i \in 1..Len(routes) : ~routes[i].protected) /\ (\A i \in 1..Len(filtered) : ~filtered[i].protected)

\* A record with an authentication middleware returned under the default options.
C6_Witness == pc = "done" /\ ~IsSome(config.isProtected) /\ ~IsSome(config.protectionMiddlewareName) /\ \E i \in 1..Len(filtered) : HasNamedMiddleware(filtered[i], {"ensureAuthenticated"})

\* ---- filters ----------------------------------------------------------
\* p[i..j] is a "/"-delimited segment of p.
IsSegment(p, i, j) == 1 <= i /\ i <= j /\ j <= Len(p) /\ (i = 1 \/ p[i - 1] = SL) /\ (j = Len(p) \/ p[j + 1] = SL) /\ \A k \in i..j : p[k] # SL
EqualIgnoringCase(a, b) == Len(a) = Len(b) /\ \A k \in 1..Len(a) : LowerChar(a[k]) = LowerChar(b[k])
TokenText(token) == IF token # <<>> /\ token[1] = SL THEN Tail(token) ELSE token
SegmentEqualsToken(p, token) == \E i \in 1..Len(p) : \E j \in i..Len(p) : IsSegment(p, i, j) /\ EqualIgnoringCase(SubSeq(p, i, j), TokenText(token))
InDomains(r, tokens) == \E t \in 1..Len(tokens) : SegmentEqualsToken(r.path, tokens[t])
TokenInsideSegment(p, token) == includes(toLowerCase(p), toLowerCase(TokenText(token))) /\ ~SegmentEqualsToken(p, token)

\* C7: a configuration that carries domainFilter returns exactly the
\* discovered records that pass the domain filter for its tokens.
NoFilterBut(option) == \A o \in {"filterDomain", "domainFilter", "pathPrefix", "showUnprotectedOnly", "includeFilter", "excludeFilter"} \ {option} : ~IsSome(config[o])
C7_DomainFilterOptionApplied == (pc = "done" /\ TruthyDomain(config.domainFilter) /\ NoFilterBut("domainFilter")) => filtered = SelectSeq(routes, LAMBDA r : InDomains(r, Get(config.domainFilter).items))

\* C8: the domain filter keeps a record iff a segment of its path equals,
\* ignoring case, a token without its leading "/".
C8_DomainKeepsSegmentMatches == (pc = StageAfter("domain") /\ TruthyDomain(config.filterDomain)) => filtered = SelectSeq(routes, LAMBDA r : InDomains(r, Get(config.filterDomain).items))

\* The domain stage has kept a record and dropped one whose segment only
\* contains the token.
C8_Witness == pc = StageAfter("domain") /\ TruthyDomain(config.filterDomain) /\ filtered # <<>> /\ \E i \in 1..Len(routes) : \E t \in 1..Len(Get(config.filterDomain).items) : TokenInsideSegment(routes[i].path, Get(config.filterDomain).items[t]) /\ routes[i] \notin Range(filtered)

PassesDomain(r) == TruthyDomain(config.filterDomain) => InDomains(r, Get(config.filterDomain).items)
PassesPrefix(r) == IsSome(config.pathPrefix) => (Len(Get(config.pathPrefix)) <= Len(r.path) /\ SubSeq(r.path, 1, Len(Get(config.pathPrefix))) = Get(config.pathPrefix))
PassesUnprotectedOnly(r) == config.showUnprotectedOnly = Some(TRUE) => ~r.protected
PassesInclude(r) == IsSome(config.includeFilter) => ApplyPredicate(Get(config.includeFilter), r)
PassesExclude(r) == IsSome(config.excludeFilter) => ~ApplyPredicate(Get(config.excludeFilter), r)
PassesFirstThree(r) == PassesDomain(r) /\ PassesPrefix(r) /\ PassesUnprotectedOnly(r)

\* C9: filterRoutes returns exactly the input records that satisfy every
\* supplied filter, unmodified and in their original order; a filter that
\* is not supplied removes nothing.
C9_ExactlyTheRecordsPassingAll == pc = "done" => filtered = SelectSeq(routes, LAMBDA r : PassesFirstThree(r) /\ PassesInclude(r) /\ PassesExclude(r))

\* Prefix, unprotected-only, include and exclude filter each removed a
\* record of their own and one record is returned.
C9_Witness ==
    /\ pc = "done" /\ filtered # <<>>
    /\ IsSome(config.pathPrefix) /\ IsSome(config.includeFilter) /\ IsSome(config.excludeFilter) /\ config.showUnprotectedOnly = Some(TRUE)
    /\ \E i \in 1..Len(routes) : ~PassesPrefix(routes[i])
    /\ \E i \in 1..Len(routes) : PassesPrefix(routes[i]) /\ ~PassesUnprotectedOnly(routes[i])
    /\ \E i \in 1..Len(routes) : PassesFirstThree(routes[i]) /\ PassesInclude(routes[i]) /\ ~PassesExclude(routes[i])

CallsOf(fn) == SelectSeq(calls, LAMBDA c : c.fn = fn)
ArgsOf(fn) == [i \in 1..Len(CallsOf(fn)) |-> CallsOf(fn)[i].arg]

\* C10: the include predicate is invoked only on (and on all of) the
\* records that passed the domain, prefix and unprotected-only filters, the
\* exclude predicate only on those that also passed the include predicate,
\* and every include call comes before every exclude call.
C10_FiltersRunInFixedOrder ==
    pc = "done" =>
        /\ IsSome(config.includeFilter) => ArgsOf("includeFilter") = SelectSeq(routes, PassesFirstThree)
        /\ IsSome(config.excludeFilter) => ArgsOf("excludeFilter") = SelectSeq(routes, LAMBDA r : PassesFirstThree(r) /\ PassesInclude(r))
        /\ \A i, j \in 1..Len(calls) : (calls[i].fn = "excludeFilter" /\ calls[j].fn = "includeFilter") => j < i

\* Both predicates supplied; a record was stopped before the include
\* predicate, one between the two predicates, one reached the exclude predicate.
C10_Witness ==
    /\ pc = "done" /\ IsSome(config.includeFilter) /\ IsSome(config.excludeFilter)
    /\ \E i \in 1..Len(routes) : ~PassesFirstThree(routes[i])
    /\ Len(ArgsOf("excludeFilter")) > 0
    /\ Len(ArgsOf("excludeFilter")) < Len(ArgsOf("includeFilter"))

\* ---- narrowing --------------------------------------------------------
FilterNames == {"filterDomain", "pathPrefix", "showUnprotectedOnly", "includeFilter", "excludeFilter"}
\* The filters of a configuration with every option outside S left out.
Restrict(filters, S) ==
    [filterDomain |-> IF "filterDomain" \in S THEN filters.filterDomain ELSE None,
     pathPrefix |-> IF "pathPrefix" \in S THEN filters.pathPrefix ELSE None,
     showUnprotectedOnly |-> "showUnprotectedOnly" \in S /\ filters.showUnprotectedOnly,
     includeFilter |-> IF "includeFilter" \in S THEN filters.includeFilter ELSE None,
     excludeFilter |-> IF "excludeFilter" \in S THEN filters.excludeFilter ELSE None]
\* The filters a configuration supplies; leaving out any other changes nothing.
Supplied(filters) ==
    {o \in FilterNames \ {"showUnprotectedOnly"} : IF o = "filterDomain" THEN TruthyDomain(filters[o]) ELSE IsSome(filters[o])}
        \cup (IF filters.showUnprotectedOnly THEN {"showUnprotectedOnly"} ELSE {})
AllFiveSupplied == TruthyDomain(config.filterDomain) /\ IsSome(config.pathPrefix) /\ config.showUnprotectedOnly = Some(TRUE) /\ IsSome(config.includeFilter) /\ IsSome(config.excludeFilter)

\* C11: the records extractRoutes returns under a configuration are among
\* the records filterRoutes gives for the same records under any subset of
\* the filters that configuration supplies, in the same order: adding a
\* filter never adds a record.
C11_FilteringIsNarrowing ==
    (pc = "done" /\ filtered # <<>>) =>
        \A S \in SUBSET Supplied(FiltersOf(config)) : filtered = SelectSeq(filterRoutes(routes, Restrict(FiltersOf(config), S)), LAMBDA r : r \in Range(filtered))

\* All five filters are supplied, a record is returned, and leaving out
\* one of the filters returns more records.
C11_Witness ==
    /\ pc = "done" /\ AllFiveSupplied /\ filtered # <<>>
    /\ \E o \in FilterNames : Len(filterRoutes(routes, Restrict(FiltersOf(config), FilterNames \ {o}))) > Len(filtered)

\* ---- failure semantics ------------------------------------------------
NoRootRouter == ~(IsSome(app) /\ IsSome(Get(app).router))
RootStack == StackOf(Get(Get(app).router))

\* C12: for an app that is null / undefined or has no _router, extractRoutes
\* does not throw, warns exactly once and returns the empty list.
C12_NoRouterWarnsOnceReturnsEmpty == NoRootRouter => (pc = "start" /\ warnings = 0) \/ (pc = "done" /\ warnings = 1 /\ filtered = <<>> /\ routes = <<>>)

\* extractRoutes has returned for an app object without a _router.
C12_Witness == pc = "done" /\ IsSome(app) /\ ~IsSome(Get(app).router) /\ warnings = 1 /\ filtered = <<>>

\* C13: for a root router whose node list is empty or absent, extractRoutes
\* returns [] and has emitted exactly one diagnostic.
C13_EmptyRootListOneNotice == (pc = "done" /\ ~NoRootRouter /\ RootStack = <<>>) => (filtered = <<>> /\ warnings = 1)

\* The same tree returns [] (whatever the number of diagnostics).
C13_EmptyRootListReturnsEmpty == (pc = "done" /\ ~NoRootRouter /\ RootStack = <<>>) => filtered = <<>>

\* C14: extractRoutes never ends by throwing, whatever the shape of the app
\* and of the layers of its tree.
C14_NeverRaises == pc # "threw"

\* C15: no step of extractRoutes changes the routing tree.
C15_TreeNeverMutated == [][app' = app]_vars

\* extractRoutes has returned after walking a nested router and a route
\* with wrapped handlers, and the filters have removed a record.
C15_Witness ==
    /\ pc = "done" /\ filtered # <<>> /\ Len(filtered) < Len(routes)
    /\ \E i \in 1..Len(visits) : visits[i].kind = "router"
    /\ \E v \in RouteVisits : IsSome(Get(v.layer.route).stack) /\ \E h \in Range(Get(Get(v.layer.route).stack)) : IsSome(h.handle)

\* ---- path utilities ---------------------------------------------------
UtilDone(fn) == IsSome(util) /\ Get(util).fn = fn /\ IsSome(Get(util).result)
UtilArg(i) == Get(util).args[i]
UtilResult == Get(Get(util).result)
\* The texts the two decoding heuristics accept.
MatchesFastPath(t) == includes(t, <<"^", BS, SL>>)
MatchesStandard(t) == includes(t, <<"^", BS, SL>>) \/ includes(t, <<BS, SL, "?">>)

\* C16: extractBaseRoute returns, for a missing matcher and for a matcher
\* of any text, a string that starts with "/"; it returns exactly "/" when
\* the matcher is missing or its text matches neither heuristic.
C16_DecoderTotalWithRootFallback ==
    UtilDone("extractBaseRoute") =>
        /\ startsWith(UtilResult, <<SL>>)
        /\ (~IsSome(UtilArg(1)) \/ ~(MatchesFastPath(Get(UtilArg(1))) \/ MatchesStandard(Get(UtilArg(1))))) => UtilResult = <<SL>>

\* extractBaseRoute has returned "/" for a matcher no heuristic recognises.
C16_Witness == UtilDone("extractBaseRoute") /\ UtilArg(1) = Some(OpaqueRegexp) /\ UtilResult = <<SL>>

C18_CombinedPathWellFormed ==
    UtilDone("combinePaths") =>
        /\ UtilResult # <<>>
        /\ NoDoubleSlash(UtilResult)
        /\ UtilResult[Len(UtilResult)] = SL => UtilResult = <<SL>>
        /\ (UtilArg(1) = <<SL>> /\ UtilArg(2) = Str(<<SL>>)) => UtilResult = <<SL>>

\* combinePaths("/a/", "//a") has returned "/a/a".
C18_Witness == UtilDone("combinePaths") /\ UtilArg(1) = <<SL, "a", SL>> /\ UtilArg(2) = Str(<<SL, SL, "a">>) /\ UtilResult = <<SL, "a", SL, "a">>

\* C19: normalizeRoutePath returns a string that starts with "/" for every
\* input: a string, a matcher, or any other value.
C19_NormalizedStartsWithSlash == UtilDone("normalizeRoutePath") => startsWith(UtilResult, <<SL>>)

\* The same statement for the inputs that are not strings.
C19_NonStringsStartWithSlash == (UtilDone("normalizeRoutePath") /\ UtilArg(1).kind # "string") => startsWith(UtilResult, <<SL>>)

\* ---- order ------------------------------------------------------------
\* The layer at a place of the tree: at[1] indexes the root node list,
\* at[2] the node list of that layer's handle, and so on.
RECURSIVE LayerAt(_, _)
LayerAt(stack, at) == IF Len(at) = 1 THEN stack[at[1]] ELSE LayerAt(StackOf(Get(stack[at[1]].handle)), Tail(at))
\* a comes before b in depth-first declaration order: a is an ancestor of
\* b, or at the first index where they differ a's node is the earlier one.
Precedes(a, b) ==
    \/ Len(a) < Len(b) /\ SubSeq(b, 1, Len(a)) = a
    \/ \E k \in 1..Len(a) : k <= Len(b) /\ a[k] < b[k] /\ SubSeq(a, 1, k - 1) = SubSeq(b, 1, k - 1)
\* The place of the node that produced each record, record by record.
RECURSIVE Producers(_)
Producers(vs) == IF vs = <<>> THEN <<>> ELSE [i \in 1..Len(Head(vs).emitted) |-> Head(vs).at] \o Producers(Tail(vs))

\* C20: before filtering the records are in depth-first declaration order:
\* every visit is of the layer at its place in the input tree, the records
\* are those of the visits in order, and of two records from different
\* nodes the earlier comes from the node (or subtree) declared earlier.
C20_RecordsInDepthFirstOrder ==
    /\ routes = EmittedBy(visits)
    /\ \A i \in 1..Len(visits) : visits[i].layer = LayerAt(RootStack, visits[i].at)
    /\ \A i, j \in 1..Len(routes) : (i < j /\ Producers(visits)[i] # Producers(visits)[j]) => Precedes(Producers(visits)[i], Producers(visits)[j])
    /\ pc = FilterOrder[1] => filtered = routes

\* A nested router's two routes have produced their records before the
\* route declared after the router, and extractRoutes has returned.
C20_Witness ==
    /\ pc = "done" /\ Len(routes) >= 3
    /\ \E i, j \in 1..Len(routes) : i + 1 < j /\ Len(Producers(visits)[i]) = 2 /\ Producers(visits)[i + 1] = <<Producers(visits)[i][1], Producers(visits)[i][2] + 1>> /\ Producers(visits)[j] = <<Producers(visits)[i][1] + 1>>

\* ---- termination ------------------------------------------------------
\* The call has ended: it has returned or has thrown.
Ended == pc \in {"done", "threw"}
\* No place of the tree is handled twice.
EachPlaceAtMostOnce == \A i, j \in 1..Len(visits) : i # j => visits[i].at # visits[j].at

\* C21: on every finite tree extractRoutes ends, and on the way no layer,
\* hence no inner node list, is entered more than once.
C21_TerminatesVisitingOnce == <>Ended /\ []EachPlaceAtMostOnce

\* extractRoutes has returned after descending three node lists deep.
C21_Witness == pc = "done" /\ \E i \in 1..Len(visits) : Len(visits[i].at) = MaxDepth + 1 /\ visits[i].kind = "route"

\* C22: no two records returned by one extractRoutes call have both the same
\* method and the same path.
C22_OneRecordPerMethodAndPath == pc = "done" => \A i, j \in 1..Len(filtered) : (filtered[i].method = filtered[j].method /\ filtered[i].path = filtered[j].path) => i = j

\* C23: each classifier returns a boolean; for null, undefined and every
\* other value that is not an object it returns false; for a layer object
\* isRouteLayer is true iff the route descriptor is present, isNestedRouter
\* iff the name is "router" and the handle has a stack, isSpecialMiddleware
\* iff the handle is a function and the layer has a regexp.
HasInnerList(layer) == IsSome(layer.handle) /\ IsSome(Get(layer.handle).stack)
HasCallableHandle(layer) == IsSome(layer.handle) /\ Get(layer.handle).isFunction
C23_ClassifiersNullSafeAndExact ==
    \A fn \in Classifiers : UtilDone(fn) =>
        /\ UtilResult \in BOOLEAN
        /\ IsPrimitive(UtilArg(1)) => UtilResult = FALSE
        /\ ~IsPrimitive(UtilArg(1)) =>
            /\ fn = "isRouteLayer" => (UtilResult <=> IsSome(UtilArg(1).route))
            /\ fn = "isNestedRouter" => (UtilResult <=> (UtilArg(1).name = "router" /\ HasInnerList(UtilArg(1))))
            /\ fn = "isSpecialMiddleware" => (UtilResult <=> (HasCallableHandle(UtilArg(1)) /\ IsSome(UtilArg(1).regexp)))
C23_Witness == UtilDone("isSpecialMiddleware") /\ ~IsPrimitive(UtilArg(1)) /\ IsSome(UtilArg(1).handle) /\ ~HasCallableHandle(UtilArg(1)) /\ IsSome(UtilArg(1).regexp) /\ UtilResult = FALSE

\* The records produced below the place of visit v, in order.
IsBelow(at, place) == Len(at) > Len(place) /\ SubSeq(at, 1, Len(place)) = place
Under(v) == EmittedBy(SelectSeq(visits, LAMBDA w : IsBelow(w.at, v.at)))
Siblings(v) == {i \in 1..Len(visits) : Len(visits[i].at) = Len(v.at) /\ SubSeq(visits[i].at, 1, Len(v.at) - 1) = SubSeq(v.at, 1, Len(v.at) - 1)}
\* The nested-router layer with the same matcher and the same inner list.
RouterTwin(layer) == [layer EXCEPT !.name = "router"]
SpecialVisits == {i \in 1..Len(visits) : visits[i].kind = "special"}

\* C24: a special-middleware layer whose handle has no stack yields no
\* record and its siblings keep the base path they are walked under; one
\* whose handle has a stack yields exactly the records the nested router
\* with the same regexp and the same stack yields under the same base.
C24_SpecialMiddlewareAsRouter ==
    pc = "done" => \A i \in SpecialVisits :
        /\ visits[i].emitted = <<>>
        /\ \A j \in Siblings(visits[i]) : visits[j].base = visits[i].base
        /\ ~HasInnerList(visits[i].layer) => Under(visits[i]) = <<>>
        /\ HasInnerList(visits[i].layer) =>
            /\ isNestedRouter(RouterTwin(visits[i].layer))
            /\ Under(visits[i]) = LayerResult(RouterTwin(visits[i].layer), visits[i].base, config.isProtected, config.protectionMiddlewareName)
C24_Witness ==
    /\ pc = "done"
    /\ \E i \in SpecialVisits : HasInnerList(visits[i].layer) /\ Under(visits[i]) # <<>> /\ Under(visits[i])[1].path # <<SL, "a">>
    /\ \E i \in SpecialVisits : ~HasInnerList(visits[i].layer) /\ Siblings(visits[i]) # {i}

Unclassified(layer) == ~isRouteLayer(layer) /\ ~isNestedRouter(layer) /\ ~isSpecialMiddleware(layer)
\* The node list with every unclassified layer taken out, at every depth.
RECURSIVE WithoutUnclassified(_)
WithoutUnclassified(stack) ==
    IF stack = <<>> THEN <<>>
    ELSE LET layer == Head(stack)
             inner == WithoutUnclassified(StackOf(Get(layer.handle)))
             kept == IF ~isRouteLayer(layer) /\ HasInnerList(layer) THEN [layer EXCEPT !.handle = Some([Get(layer.handle) EXCEPT !.stack = Some(inner)])] ELSE layer
         IN (IF Unclassified(layer) THEN <<>> ELSE <<kept>>) \o WithoutUnclassified(Tail(stack))
SkippedVisits == {i \in 1..Len(visits) : visits[i].kind = "skipped"}
AtUnclassifiedLayer == HasCurrent /\ Unclassified(Current)
\* The step taken at an unclassified layer moves on to the next layer and
\* changes nothing else but the visit log.
SkipsSilently == AtUnclassifiedLayer => (pc' = "walk" /\ frames' = Advance(frames) /\ routes' = routes /\ warnings' = warnings /\ calls' = calls)
SameAsWithoutSkipped ==
    /\ \A i \in SkippedVisits : Unclassified(visits[i].layer) /\ visits[i].emitted = <<>>
    /\ (pc = "done" /\ ~NoRootRouter) =>
        /\ warnings = 0
        /\ routes = extractRoutesFromRouter(WithoutUnclassified(RootStack), <<SL>>, config.isProtected, config.protectionMiddlewareName)

\* C25: a layer that is neither a route layer, a nested router nor a special
\* middleware is passed over: the step adds no record, warns of nothing and
\* does not raise, and the call returns the records it returns for the tree
\* without that layer.
C25_UnclassifiedSkippedSilently == []SameAsWithoutSkipped /\ [][SkipsSilently]_vars
C25_Witness == pc = "done" /\ SkippedVisits # {} /\ routes # <<>> /\ \E i \in SkippedVisits : visits[i].at[Len(visits[i].at)] = 1

RouteVisitAt(i) == CHOOSE k \in 1..Len(visits) : Len(EmittedBy(SubSeq(visits, 1, k - 1))) < i /\ i <= Len(EmittedBy(SubSeq(visits, 1, k)))

\* C26: with a custom isProtected predicate, the predicate is called once
\* per emitted record, in record order, with the record's combined path,
\* its upper-cased method and its middlewares, and the record's protected
\* field is what the predicate gives for that argument.
C26_PredicateCalledOncePerRecord ==
    IsSome(config.isProtected) =>
        /\ Len(ArgsOf("isProtected")) = Len(routes)
        /\ \A i \in 1..Len(routes) :
            LET arg == ArgsOf("isProtected")[i]
                v == visits[RouteVisitAt(i)]
            IN /\ arg = [path |-> routes[i].path, method |-> routes[i].method, middlewares |-> routes[i].middlewares]
               /\ arg.path = combinePaths(v.base, Get(v.layer.route).path)
               /\ arg.method = toUpperCase(arg.method)
               /\ arg.middlewares = extractMiddlewares(Get(v.layer.route))
               /\ routes[i].protected = ApplyPredicate(Get(config.isProtected), arg)
C26_Witness ==
    /\ pc = "done"
    /\ config.isProtected = Some("underA")
    /\ \E i \in 1..Len(routes) : routes[i].protected /\ ~startsWith(normalizeRoutePath(Get(visits[RouteVisitAt(i)].layer.route).path), <<SL, "a">>)
    /\ \E i \in 1..Len(routes) : ~routes[i].protected

Printed == UtilResult.lines
Rows == SelectSeq(Printed, LAMBDA line : line.kind = "row")
SameRoute(row, r) == row.method = r.method /\ row.path = r.path /\ row.protected = r.protected
Count(seq, Test(_)) == Cardinality({i \in 1..Len(seq) : Test(seq[i])})
OneRowPerRoute(rs) == Len(Rows) = Len(rs) /\ \A k \in 1..Len(rs) : Count(Rows, LAMBDA row : SameRoute(row, rs[k])) = Count(rs, LAMBDA r : SameRoute(rs[k], r))
RowsInOrder ==
    \A i \in 1..(Len(Rows) - 1) :
        LET d == extractDomain(Rows[i].path)
            e == extractDomain(Rows[i + 1].path)
        IN IF d = e THEN MethodPriority(Rows[i].method) <= MethodPriority(Rows[i + 1].method) ELSE CodeUnitLess(d, e)
PrintsTheTable(rs) == ~UtilResult.threw /\ OneRowPerRoute(rs) /\ RowsInOrder

\* C27: printRoutes on a non-empty list prints one row per route, the
\* groups in ascending order of their domain names and the rows of a group
\* in the method priority order GET, POST, PUT, PATCH, DELETE, others; on
\* an empty list it prints the no-routes message and nothing else.
C27_PrintsSortedRows ==
    UtilDone("printRoutes") =>
        IF UtilArg(1) = <<>> THEN ~UtilResult.threw /\ Printed = <<Line("No routes found matching your criteria")>>
        ELSE PrintsTheTable(UtilArg(1))
\* The same for lists none of whose domains names a property of Object.prototype.
C27_PrintsSortedRowsForOwnNames ==
    (UtilDone("printRoutes") /\ UtilArg(1) # <<>> /\ DomainsOf(UtilArg(1)) \cap ObjectPrototypeKeys = {}) => PrintsTheTable(UtilArg(1))

\* The branch the if / else-if chain of the flatMap callback takes.
BranchOf(layer) ==
    IF isRouteLayer(layer) THEN "route"
    ELSE IF isNestedRouter(layer) THEN "router"
    ELSE IF isSpecialMiddleware(layer) THEN "special"
    ELSE "skipped"
ChildVisits(v) == {j \in 1..Len(visits) : Len(visits[j].at) = Len(v.at) + 1 /\ IsBelow(visits[j].at, v.at)}

\* C28: every layer is handled by one branch, the first of route layer,
\* nested router, special middleware that accepts it: a layer with a route
\* descriptor yields its route records only and its inner list is not
\* walked, a layer that is both a nested router and a special middleware
\* has its inner list walked once, and the records are those of the
\* visits, each place of the tree being visited once.
C28_OneBranchPerLayer ==
    /\ EachPlaceAtMostOnce
    /\ routes = EmittedBy(visits)
    /\ \A i \in 1..Len(visits) :
        LET v == visits[i]
        IN /\ v.kind = BranchOf(v.layer)
           /\ v.kind = "route" => (ChildVisits(v) = {} /\ v.emitted = extractRoutesFromRouteLayer(v.layer, v.base, config.isProtected, config.protectionMiddlewareName))
           /\ v.kind # "route" => v.emitted = <<>>
           /\ (pc = "done" /\ v.kind = "router") => \A k \in 1..Len(StackOf(Get(v.layer.handle))) : Cardinality({j \in ChildVisits(v) : visits[j].at = Append(v.at, k)}) = 1
C28_Witness ==
    /\ pc = "done"
    /\ \E i \in 1..Len(visits) : visits[i].kind = "route" /\ isNestedRouter(visits[i].layer) /\ isSpecialMiddleware(visits[i].layer) /\ Len(visits[i].emitted) = 1
    /\ \E i \in 1..Len(visits) : visits[i].kind = "router" /\ isSpecialMiddleware(visits[i].layer) /\ ChildVisits(visits[i]) # {}

AfterDomainStage == pc = StageAfter("domain")
\* C29: with filterDomain an empty list the domain stage removes every
\* record and the call returns none; with filterDomain absent or the empty
\* string the domain stage hands on the records unchanged.
C29_EmptyListRemovesAll ==
    /\ (config.filterDomain = Some(DomainList(<<>>)) /\ (AfterDomainStage \/ pc = "done")) => filtered = <<>>
    /\ (config.filterDomain \in {None, Some(DomainStr(<<>>))} /\ AfterDomainStage) => filtered = routes
C29_Witness == AfterDomainStage /\ config.filterDomain = Some(DomainList(<<>>)) /\ Len(routes) >= 2 /\ filtered = <<>>

FilterPredicates == {"includeFilter", "excludeFilter"}
\* C30: every call of the custom isProtected predicate comes before every
\* call of includeFilter and of excludeFilter, and isProtected is called
\* for every discovered record, those the filters remove included.
C30_ProtectionResolvedBeforeFilters ==
    /\ \A i, j \in 1..Len(calls) : (calls[i].fn = "isProtected" /\ calls[j].fn \in FilterPredicates) => i < j
    /\ IsSome(config.isProtected) =>
        /\ Len(ArgsOf("isProtected")) = Len(routes)
        /\ \A k \in 1..Len(routes) : ArgsOf("isProtected")[k].path = routes[k].path /\ ArgsOf("isProtected")[k].method = routes[k].method
    /\ (\E j \in 1..Len(calls) : calls[j].fn \in FilterPredicates) => pc \notin {"start", "walk"}
C30_Witness ==
    /\ pc = "done"
    /\ IsSome(config.isProtected)
    /\ CallsOf("includeFilter") # <<>> /\ CallsOf("excludeFilter") # <<>>
    /\ Len(filtered) < Len(routes)
    /\ Len(CallsOf("isProtected")) = Len(routes)

====
